---- MODULE Spec2Model ----
(***************************************************************************)
(* Model of the mesh-to-fit-to-pattern pipeline (toolbelt/make-it-cunt/    *)
(* server): fit analysis, pattern generation and mesh orientation.         *)
(*                                                                         *)
(* Lengths are millimetres.  A quantity the code obtains by averaging      *)
(* (np.mean) is kept in fixed point: an "amount" is the length multiplied  *)
(* by AmountScale, a common multiple of every possible divisor, so that    *)
(* the mean is exact.                                                      *)
(***************************************************************************)
EXTENDS Integers, Sequences, FiniteSets, TLC

VARIABLES
    mode,               \* which entry point of the pipeline this behaviour exercises
    body,               \* the analyzed BodyModel handed to FitAnalyzer
    garment,            \* the analyzed GarmentModel handed to FitAnalyzer
    movement_envelope,  \* FitAnalyzer.movement_envelope (None or a MovementEnvelope)
    nearest,            \* the answer of the garment KD-tree for the body vertices
    distance_map,       \* FitAnalysisResult.distance_map
    issues,             \* FitAnalysisResult.issues / the argument of _compute_fit_score
    recommendations,    \* FitAnalysisResult.recommendations
    overall_fit_score,  \* FitAnalysisResult.overall_fit_score, NotComputed before the call
    fabric_type,        \* PatternGenerator.fabric_type
    panel_args,         \* the arguments of a direct _create_tapered_panel call
    patterns,           \* the list generate_from_recommendations returns
    processed,          \* the ProcessedMesh handed to MeshProcessor.orient_body
    body_model,         \* the BodyModel whose public methods are being called
    garment_model,      \* the GarmentModel whose measurements are being extracted
    dimensions,         \* the bounding-box dimensions handed to _detect_units
    unit,               \* the MeshUnit _detect_units returned
    body_mesh,          \* the body ProcessedMesh on its way to align_meshes
    garment_mesh,       \* the garment ProcessedMesh on its way to align_meshes
    seam_edges,         \* the candidate edges of _chain_edges_to_seams, in iteration order
    chains,             \* the chains _chain_edges_to_seams built
    vertex_zones,       \* the BodyZone _classify_body_zone returned for each body vertex
    svg_content,        \* the 'svg_content' dict generate_patterns returned
    mesh_storage,       \* app.mesh_storage: the stored body and garment entries
    response            \* the last response, with what its request gave analyze_fit

fitInputs == <<body, garment, movement_envelope>>
fitResult == <<nearest, distance_map, issues, recommendations, overall_fit_score>>
patternVars == <<fabric_type, panel_args, patterns>>
unitVars == <<dimensions, unit>>
alignVars == <<body_mesh, garment_mesh>>
seamVars == <<seam_edges, chains>>
serverVars == <<mesh_storage, response>>
entryVars == <<vertex_zones, svg_content, serverVars>>
analysisVars == <<body_model, garment_model, unitVars, alignVars, seamVars, entryVars>>
meshVars == <<processed, analysisVars>>
vars == <<mode, body, garment, movement_envelope, nearest, distance_map, issues,
          recommendations, overall_fit_score, fabric_type, panel_args, patterns,
          processed, body_model, garment_model, dimensions, unit, body_mesh,
          garment_mesh, seam_edges, chains, vertex_zones,
          svg_content, mesh_storage, response>>

(***************************************************************************)
(* Bounds of the model.                                                    *)
(***************************************************************************)
MaxIssues == 5          \* longest issue list handed to _compute_fit_score
MaxBodyVertices == 2    \* most vertices of a body placed freely around the garment

NotComputed == 0 - 1
None == [is_none |-> TRUE]

RECURSIVE Factorial(_)
Factorial(n) == IF n <= 1 THEN 1 ELSE n * Factorial(n - 1)

\* Fixed-point scale of FitIssue.amount: divisible by every vertex count of a body
\* (a body coincident with the garment has the garment's four vertices).
AmountScale == Factorial(MaxBodyVertices + 2)

mm(x) == x * AmountScale

Max(a, b) == IF a >= b THEN a ELSE b
Min(a, b) == IF a <= b THEN a ELSE b
Abs(a) == IF a < 0 THEN -a ELSE a

RECURSIVE SumSeq(_)
SumSeq(s) == IF s = <<>> THEN 0 ELSE Head(s) + SumSeq(Tail(s))

\* No pattern generator is in play.
PatternIdle == fabric_type = "default" /\ panel_args = <<>> /\ patterns = <<>>

\* No model is under analysis.
UnitsIdle == dimensions = None /\ unit = None
AlignIdle == body_mesh = None /\ garment_mesh = None
SeamsIdle == seam_edges = <<>> /\ chains = <<>>
ServerIdle == mesh_storage = None /\ response = None
EntryIdle == vertex_zones = <<>> /\ svg_content = <<>> /\ ServerIdle
AnalysisIdle ==
    body_model = None /\ garment_model = None /\ UnitsIdle /\ AlignIdle /\ SeamsIdle /\ EntryIdle

\* No mesh is being processed.
MeshIdle == processed = None /\ AnalysisIdle

\* All sequences over S of length 0..n.
SeqsUpTo(S, n) == UNION {[1..k -> S] : k \in 0..n}

(***************************************************************************)
(* fit_analysis.py: enumerations.                                          *)
(***************************************************************************)
FitIssueType == {"compression", "gap", "too_short", "movement_conflict", "seam_stress"}

FitIssueSeverity == {"minor", "moderate", "severe", "critical"}

BodyZone == {"shoulders", "bust", "waist", "hips", "crotch", "thighs", "knees",
             "calves", "ankles", "torso_front", "torso_back"}

\* FitIssue without its location; amount is in fixed point and description is
\* the leading word of the text (what was measured).
FitIssue(t, s, z, a, description, v) ==
    [issue_type |-> t, severity |-> s, body_zone |-> z, amount |-> a,
     description |-> description, affected_vertices |-> v]

(***************************************************************************)
(* FitAnalyzer._compute_fit_score                                          *)
(***************************************************************************)
\* the deductions table
deductions(severity) ==
    CASE severity = "minor" -> 3
      [] severity = "moderate" -> 8
      [] severity = "severe" -> 15
      [] severity = "critical" -> 25

total_deduction(iss) ==
    SumSeq([i \in 1..Len(iss) |-> deductions(iss[i].severity)])

\* A scoring that forgets the early return and the floor.
compute_fit_score_unfloored(iss) == 100 - total_deduction(iss)

\* A scoring whose minor issues cost nothing.
compute_fit_score_free_minor(iss) ==
    IF iss = <<>> THEN 100
    ELSE Max(0, 100 - SumSeq([i \in 1..Len(iss) |->
                 IF iss[i].severity = "minor" THEN 0 ELSE deductions(iss[i].severity)]))

_compute_fit_score(iss) ==
    IF iss = <<>> THEN 100
    ELSE Max(0, 100 - total_deduction(iss))

(***************************************************************************)
(* Specification SpecScore: _compute_fit_score applied to an arbitrary     *)
(* issue list.  The issues are the ones the analyzer can build: a          *)
(* compression or a gap issue of each severity its thresholds allow.       *)
(***************************************************************************)
SampleIssues ==
    {FitIssue("compression", "minor", "waist", mm(-6), "Compression", <<1>>),
     FitIssue("compression", "moderate", "waist", mm(-15), "Compression", <<1>>),
     FitIssue("compression", "severe", "waist", mm(-25), "Compression", <<1>>),
     FitIssue("compression", "critical", "waist", mm(-35), "Compression", <<1>>),
     FitIssue("gap", "minor", "bust", mm(21), "Gap", <<1>>),
     FitIssue("gap", "moderate", "bust", mm(41), "Gap", <<1>>),
     FitIssue("gap", "severe", "bust", mm(61), "Gap", <<1>>)}

InitScore ==
    /\ mode = "score"
    /\ body = None
    /\ garment = None
    /\ movement_envelope = None
    /\ nearest = <<>>
    /\ distance_map = <<>>
    /\ recommendations = <<>>
    /\ PatternIdle
    /\ MeshIdle
    /\ issues \in SeqsUpTo(SampleIssues, MaxIssues)
    /\ overall_fit_score = NotComputed

ComputeFitScore ==
    /\ mode = "score"
    /\ overall_fit_score = NotComputed
    /\ overall_fit_score' = _compute_fit_score(issues)
    /\ UNCHANGED <<mode, fitInputs, nearest, distance_map, issues, recommendations, patternVars, meshVars>>

NextScore == ComputeFitScore

SpecScore == InitScore /\ [][NextScore]_vars

CountSeverity(iss, s) == Cardinality({i \in 1..Len(iss) : iss[i].severity = s})

\* C1: the score is exactly 100 if and only if the issue list is empty.
C1_ScoreHundredIffEmpty ==
    (mode = "score" /\ overall_fit_score # NotComputed)
        => ((overall_fit_score = 100) <=> (issues = <<>>))

C1_Witness ==
    /\ mode = "score"
    /\ overall_fit_score # NotComputed
    /\ Len(issues) = 1
    /\ issues[1].severity = "minor"
    /\ overall_fit_score = 97

\* C2: the score is max(0, 100 - (3*#minor + 8*#moderate + 15*#severe + 25*#critical)),
\* hence within 0..100.
C2_ScoreFormula ==
    (mode = "score" /\ overall_fit_score # NotComputed)
        => /\ overall_fit_score =
                Max(0, 100 - (3 * CountSeverity(issues, "minor")
                              + 8 * CountSeverity(issues, "moderate")
                              + 15 * CountSeverity(issues, "severe")
                              + 25 * CountSeverity(issues, "critical")))
           /\ overall_fit_score \in 0..100

C2_Witness ==
    /\ mode = "score"
    /\ overall_fit_score = 0
    /\ CountSeverity(issues, "critical") = 5

(***************************************************************************)
(* Vectors: a vertex is <<x, y, z>> in millimetres, Y up.                  *)
(***************************************************************************)
Sub(p, q) == <<p[1] - q[1], p[2] - q[2], p[3] - q[3]>>
Dot(p, q) == p[1] * q[1] + p[2] * q[2] + p[3] * q[3]
Cross(p, q) == <<p[2] * q[3] - p[3] * q[2],
                 p[3] * q[1] - p[1] * q[3],
                 p[1] * q[2] - p[2] * q[1]>>
Scaled(k, p) == <<k * p[1], k * p[2], k * p[3]>>
Plus(p, q) == <<p[1] + q[1], p[2] + q[2], p[3] + q[3]>>
D2(p, q) == Dot(Sub(p, q), Sub(p, q))
Sign(a) == IF a > 0 THEN 1 ELSE IF a < 0 THEN -1 ELSE 0

RECURSIVE Gcd(_, _)
Gcd(a, b) == IF b = 0 THEN a ELSE Gcd(b, a % b)

\* floor of the square root, by bisection on lo..hi
RECURSIVE SqrtIn(_, _, _)
SqrtIn(n, lo, hi) ==
    IF lo >= hi THEN lo
    ELSE LET mid == (lo + hi + 1) \div 2
         IN IF mid * mid <= n THEN SqrtIn(n, mid, hi) ELSE SqrtIn(n, lo, mid - 1)
ISqrt(n) == SqrtIn(n, 0, Min(n, 46340))
IsSquare(n) == ISqrt(n) * ISqrt(n) = n

SetMin(S) == CHOOSE m \in S : \A x \in S : m <= x
SetMax(S) == CHOOSE m \in S : \A x \in S : m >= x
Range(s) == {s[i] : i \in DOMAIN s}

\* The elements of s whose index satisfies Keep, in order (np.where / a filtering loop).
RECURSIVE SelectIdx(_, _, _)
SelectIdx(n, Keep(_), from) ==
    IF from > n THEN <<>>
    ELSE (IF Keep(from) THEN <<from>> ELSE <<>>) \o SelectIdx(n, Keep, from + 1)

\* The distinct elements of s in order of first occurrence (dict insertion order).
RECURSIVE FirstOccurrences(_)
FirstOccurrences(s) ==
    IF s = <<>> THEN <<>>
    ELSE LET init == FirstOccurrences(SubSeq(s, 1, Len(s) - 1))
             last == s[Len(s)]
         IN IF last \in Range(init) THEN init ELSE Append(init, last)

(***************************************************************************)
(* BodyModel.__init__: bounds of the body mesh.                            *)
(***************************************************************************)
min_y(vertices) == SetMin({vertices[i][2] : i \in DOMAIN vertices})
max_y(vertices) == SetMax({vertices[i][2] : i \in DOMAIN vertices})
height_of(vertices) == max_y(vertices) - min_y(vertices)

(***************************************************************************)
(* FitAnalyzer._compute_distance_map and _get_vertex_normal.               *)
(* cKDTree.query answers, for a point, the distance to a nearest garment   *)
(* vertex and the index of one such vertex; which one among equidistant    *)
(* vertices is the tree's choice, so the index is chosen by the caller of  *)
(* these operators among NearestIndices.                                   *)
(***************************************************************************)
NearestD2(gverts, p) == SetMin({D2(gverts[j], p) : j \in DOMAIN gverts})
NearestIndices(gverts, p) == {j \in DOMAIN gverts : D2(gverts[j], p) = NearestD2(gverts, p)}
query_distance(gverts, p) == ISqrt(NearestD2(gverts, p))

\* np.cross(edge1, edge2) of a face
face_cross(g, f) ==
    Cross(Sub(g.vertices[f[2]], g.vertices[f[1]]), Sub(g.vertices[f[3]], g.vertices[f[1]]))

\* A face's unit normal c/|c| as <<numerator vector, denominator>> in lowest terms.
unit_normal(c) ==
    LET k == Gcd(Gcd(Abs(c[1]), Abs(c[2])), Abs(c[3]))
        r == <<c[1] \div k, c[2] \div k, c[3] \div k>>
    IN <<r, ISqrt(Dot(r, r))>>

\* Sum of the rationals ns[i][1] / ns[i][2], as a vector over their common denominator.
RECURSIVE SumNormals(_)
SumNormals(ns) ==
    IF ns = <<>> THEN <<<<0, 0, 0>>, 1>>
    ELSE LET rest == SumNormals(Tail(ns))
             h == Head(ns)
         IN <<Plus(Scaled(rest[2], h[1]), Scaled(h[2], rest[1])), h[2] * rest[2]>>

\* The vertex normal up to a positive factor (only its direction is used).
_get_vertex_normal(g, vertex_idx) ==
    LET adj == SelectIdx(Len(g.faces), LAMBDA k : vertex_idx \in Range(g.faces[k]), 1)
        nz == SelectIdx(Len(adj), LAMBDA k : face_cross(g, g.faces[adj[k]]) # <<0, 0, 0>>, 1)
        total == SumNormals([k \in 1..Len(nz) |-> unit_normal(face_cross(g, g.faces[adj[nz[k]]]))])[1]
    IN IF adj = <<>> \/ nz = <<>> \/ total = <<0, 0, 0>> THEN <<0, 1, 0>>
       ELSE total

_compute_distance_map(b, g, nn) ==
    [i \in 1..Len(b.vertices) |->
        LET direction == Sub(b.vertices[i], g.vertices[nn[i]])
            dot == Dot(direction, _get_vertex_normal(g, nn[i]))
        IN (-Sign(dot)) * query_distance(g.vertices, b.vertices[i])]

(***************************************************************************)
(* FitAnalyzer._classify_body_zone.  landmarks maps a landmark to its      *)
(* height (the Y coordinate is all the analyzer reads of a landmark).      *)
(***************************************************************************)
Near(landmarks, name, height, tol) ==
    name \in DOMAIN landmarks /\ Abs(height - landmarks[name]) < tol

\* (height - min_y) / height > pct/100; a zero height makes the quotient nan,
\* which compares false.
RelHeightAbove(b, height, pct) ==
    /\ height_of(b.vertices) # 0
    /\ (height - min_y(b.vertices)) * 100 > pct * height_of(b.vertices)

\* The same rules with the waist tested before the bust.
classify_body_zone_waist_first(b, vertex) ==
    LET height == vertex[2]
        landmarks == b.landmarks
    IN IF Near(landmarks, "shoulder_center", height, 100) THEN "shoulders"
       ELSE IF Near(landmarks, "waist", height, 100) THEN "waist"
       ELSE IF Near(landmarks, "bust_apex_left", height, 100) THEN "bust"
       ELSE IF Near(landmarks, "hip", height, 100) THEN "hips"
       ELSE IF Near(landmarks, "crotch", height, 80) THEN "crotch"
       ELSE IF Near(landmarks, "left_knee", height, 80) THEN "knees"
       ELSE
              IF RelHeightAbove(b, height, 85) THEN "shoulders"
              ELSE IF RelHeightAbove(b, height, 70) THEN "bust"
              ELSE IF RelHeightAbove(b, height, 55) THEN "waist"
              ELSE IF RelHeightAbove(b, height, 40) THEN "hips"
              ELSE IF RelHeightAbove(b, height, 30) THEN "thighs"
              ELSE IF RelHeightAbove(b, height, 20) THEN "knees"
              ELSE IF RelHeightAbove(b, height, 10) THEN "calves"
              ELSE "ankles"

_classify_body_zone(b, vertex) ==
    LET height == vertex[2]
        landmarks == b.landmarks
    IN IF Near(landmarks, "shoulder_center", height, 100) THEN "shoulders"
       ELSE IF Near(landmarks, "bust_apex_left", height, 100) THEN "bust"
       ELSE IF Near(landmarks, "waist", height, 100) THEN "waist"
       ELSE IF Near(landmarks, "hip", height, 100) THEN "hips"
       ELSE IF Near(landmarks, "crotch", height, 80) THEN "crotch"
       ELSE IF Near(landmarks, "left_knee", height, 80) THEN "knees"
       ELSE
              IF RelHeightAbove(b, height, 85) THEN "shoulders"
              ELSE IF RelHeightAbove(b, height, 70) THEN "bust"
              ELSE IF RelHeightAbove(b, height, 55) THEN "waist"
              ELSE IF RelHeightAbove(b, height, 40) THEN "hips"
              ELSE IF RelHeightAbove(b, height, 30) THEN "thighs"
              ELSE IF RelHeightAbove(b, height, 20) THEN "knees"
              ELSE IF RelHeightAbove(b, height, 10) THEN "calves"
              ELSE "ankles"

(***************************************************************************)
(* FitAnalyzer._find_compression_zones and _find_gap_zones.                *)
(***************************************************************************)
COMPRESSION_THRESHOLD == -5
GAP_THRESHOLD_MINOR == 20
GAP_THRESHOLD_MODERATE == 40
GAP_THRESHOLD_SEVERE == 60

\* np.mean of the distances dm[i], i in indices, in fixed point
MeanAmount(dm, indices) ==
    (SumSeq([k \in 1..Len(indices) |-> dm[indices[k]]]) * AmountScale) \div Len(indices)

\* A severity ladder that starts one step too high.
compression_severity_shifted(max_compression) ==
    IF max_compression < -20 THEN "critical"
    ELSE IF max_compression < -10 THEN "severe"
    ELSE "moderate"

compression_severity(max_compression) ==
    IF max_compression < -30 THEN "critical"
    ELSE IF max_compression < -20 THEN "severe"
    ELSE IF max_compression < -10 THEN "moderate"
    ELSE "minor"

gap_severity(max_gap) ==
    IF max_gap > GAP_THRESHOLD_SEVERE THEN "severe"
    ELSE IF max_gap > GAP_THRESHOLD_MODERATE THEN "moderate"
    ELSE "minor"

\* zones: the body zones of the selected vertices, in dict insertion order
ZonesOf(b, indices) ==
    FirstOccurrences([k \in 1..Len(indices) |-> _classify_body_zone(b, b.vertices[indices[k]])])

IndicesInZone(b, indices, zone) ==
    LET ks == SelectIdx(Len(indices),
                        LAMBDA k : _classify_body_zone(b, b.vertices[indices[k]]) = zone, 1)
    IN [k \in 1..Len(ks) |-> indices[ks[k]]]

\* A compression finder that reports every compressed vertex on its own.
find_compression_zones_per_vertex(b, dm) ==
    LET compressed_indices == SelectIdx(Len(dm), LAMBDA i : dm[i] < COMPRESSION_THRESHOLD, 1)
    IN [k \in 1..Len(compressed_indices) |->
          FitIssue("compression", compression_severity(dm[compressed_indices[k]]),
                   _classify_body_zone(b, b.vertices[compressed_indices[k]]),
                   dm[compressed_indices[k]] * AmountScale, "Compression",
                   <<compressed_indices[k]>>)]

\* A compression finder that reports the magnitude of the compression.
find_compression_zones_unsigned(b, dm) ==
    LET compressed_indices == SelectIdx(Len(dm), LAMBDA i : dm[i] < COMPRESSION_THRESHOLD, 1)
        zones == ZonesOf(b, compressed_indices)
    IN [z \in 1..Len(zones) |->
          LET indices == IndicesInZone(b, compressed_indices, zones[z])
          IN FitIssue("compression",
                      compression_severity(SetMin({dm[indices[k]] : k \in 1..Len(indices)})),
                      zones[z], Abs(MeanAmount(dm, indices)), "Compression", indices)]

_find_compression_zones(b, dm) ==
    LET compressed_indices == SelectIdx(Len(dm), LAMBDA i : dm[i] < COMPRESSION_THRESHOLD, 1)
        zones == ZonesOf(b, compressed_indices)
    IN [z \in 1..Len(zones) |->
          LET indices == IndicesInZone(b, compressed_indices, zones[z])
              max_compression == SetMin({dm[indices[k]] : k \in 1..Len(indices)})
          IN FitIssue("compression", compression_severity(max_compression),
                      zones[z], MeanAmount(dm, indices), "Compression", indices)]

\* A gap finder whose threshold comparison is the wrong way round.
find_gap_zones_inverted(b, dm) ==
    LET gap_indices == SelectIdx(Len(dm), LAMBDA i : dm[i] < GAP_THRESHOLD_MINOR, 1)
        zones == ZonesOf(b, gap_indices)
    IN [z \in 1..Len(zones) |->
          LET indices == IndicesInZone(b, gap_indices, zones[z])
          IN FitIssue("gap", gap_severity(SetMax({dm[indices[k]] : k \in 1..Len(indices)})),
                      zones[z], MeanAmount(dm, indices), "Gap", indices)]

_find_gap_zones(b, dm) ==
    LET gap_indices == SelectIdx(Len(dm), LAMBDA i : dm[i] > GAP_THRESHOLD_MINOR, 1)
        zones == ZonesOf(b, gap_indices)
    IN [z \in 1..Len(zones) |->
          LET indices == IndicesInZone(b, gap_indices, zones[z])
              max_gap == SetMax({dm[indices[k]] : k \in 1..Len(indices)})
          IN FitIssue("gap", gap_severity(max_gap),
                      zones[z], MeanAmount(dm, indices), "Gap", indices)]

(***************************************************************************)
(* FitAnalyzer._check_length.                                              *)
(***************************************************************************)
leg_severity(deficit) ==
    IF deficit > 50 THEN "severe" ELSE IF deficit > 25 THEN "moderate" ELSE "minor"

\* An inseam check whose moderate band starts at the tolerance.
check_inseam_early_moderate(bm, gm) ==
    IF bm.inseam > 0 /\ gm.inseam_length > 0 /\ bm.inseam - gm.inseam_length > 10
    THEN <<FitIssue("too_short",
                    IF bm.inseam - gm.inseam_length > 50 THEN "severe" ELSE "moderate",
                    "ankles", mm(bm.inseam - gm.inseam_length), "Inseam", <<>>)>>
    ELSE <<>>

check_inseam(bm, gm) ==
    IF bm.inseam > 0 /\ gm.inseam_length > 0 /\ bm.inseam - gm.inseam_length > 10
    THEN <<FitIssue("too_short", leg_severity(bm.inseam - gm.inseam_length),
                    "ankles", mm(bm.inseam - gm.inseam_length), "Inseam", <<>>)>>
    ELSE <<>>

check_outseam(bm, gm) ==
    IF bm.outseam > 0 /\ gm.outseam_length > 0 /\ bm.outseam - gm.outseam_length > 10
    THEN <<FitIssue("too_short", leg_severity(bm.outseam - gm.outseam_length),
                    "ankles", mm(bm.outseam - gm.outseam_length), "Outseam", <<>>)>>
    ELSE <<>>

check_rise(bm, gm) ==
    IF bm.front_rise > 0 /\ gm.front_rise > 0 /\ bm.front_rise - gm.front_rise > 10
    THEN <<FitIssue("too_short",
                    IF bm.front_rise - gm.front_rise > 30 THEN "severe" ELSE "moderate",
                    "crotch", mm(bm.front_rise - gm.front_rise), "Rise", <<>>)>>
    ELSE <<>>

check_torso(bm, g) ==
    IF /\ bm.torso_length > 0 /\ g.measurements.body_length > 0
       /\ g.garment_type = "shirt"
       /\ bm.torso_length - g.measurements.body_length > 20
    THEN <<FitIssue("too_short", "moderate", "waist",
                    mm(bm.torso_length - g.measurements.body_length), "Torso", <<>>)>>
    ELSE <<>>

_check_length(b, g) ==
    check_inseam(b.measurements, g.measurements)
        \o check_outseam(b.measurements, g.measurements)
        \o check_rise(b.measurements, g.measurements)
        \o check_torso(b.measurements, g)

(***************************************************************************)
(* body_model.py: MovementEnvelope and BodyModel.generate_movement_envelope*)
(***************************************************************************)
default_ease ==
    [shoulder |-> 50, bust |-> 30, waist |-> 20, hip |-> 40, crotch |-> 60,
     knee |-> 50, elbow |-> 40]

wild_movement_ease ==
    [shoulder |-> 80, bust |-> 50, waist |-> 40, hip |-> 70, crotch |-> 100,
     knee |-> 80, elbow |-> 60]

ease_map_of(ease_profile) ==
    IF ease_profile = "wild" THEN wild_movement_ease ELSE default_ease

\* The ease of one vertex: later zones override earlier ones.
vertex_ease(landmarks, ease_map, height) ==
    LET e0 == 20
        e1 == IF "shoulder_center" \in DOMAIN landmarks
                 /\ height > landmarks["shoulder_center"] - 50
              THEN ease_map.shoulder ELSE e0
        e2 == IF Near(landmarks, "waist", height, 100) THEN ease_map.waist ELSE e1
        e3 == IF Near(landmarks, "hip", height, 100) THEN ease_map.hip ELSE e2
        e4 == IF Near(landmarks, "crotch", height, 100) THEN ease_map.crotch ELSE e3
        e5 == IF Near(landmarks, "left_knee", height, 100) THEN ease_map.knee ELSE e4
    IN e5

\* direction = v[[0, 2]] - [0, v[2]] = [x, 0]: the push is along X only.
expand_vertex(v, ease) == <<v[1] + Sign(v[1]) * ease, v[2], v[3]>>

generate_movement_envelope(b, ease_profile) ==
    [base_mesh_vertices |-> b.vertices,
     expanded_vertices |->
        [i \in 1..Len(b.vertices) |->
            expand_vertex(b.vertices[i],
                          vertex_ease(b.landmarks, ease_map_of(ease_profile),
                                      b.vertices[i][2]))],
     ease_map |-> ease_map_of(ease_profile)]

(***************************************************************************)
(* FitAnalyzer._check_movement_conflicts.                                  *)
(***************************************************************************)
\* zone_issues: one issue per zone, the first of the largest amount, in the order
\* in which the zones first occur.
\* No deduplication: every conflicting vertex keeps its issue.
dedupe_by_zone_keep_all(found) == found

dedupe_by_zone(found) ==
    LET zones == FirstOccurrences([k \in 1..Len(found) |-> found[k].body_zone])
    IN [z \in 1..Len(zones) |->
          LET ks == SelectIdx(Len(found), LAMBDA k : found[k].body_zone = zones[z], 1)
              worst == SetMax({found[ks[k]].amount : k \in 1..Len(ks)})
              first == SetMin({ks[k] : k \in {j \in 1..Len(ks) : found[ks[j]].amount = worst}})
          IN found[first]]

_check_movement_conflicts(b, g, envelope) ==
    IF envelope = None THEN <<>>
    ELSE
      LET expanded_verts == envelope.expanded_vertices
          dist(i) == query_distance(g.vertices, expanded_verts[i])
          hits == SelectIdx(Len(expanded_verts),
                            LAMBDA i : dist(i) > 0 /\ ~(dist(i) < 20) /\ dist(i) > 30, 1)
          found == [k \in 1..Len(hits) |->
                      FitIssue("movement_conflict", "moderate",
                               _classify_body_zone(b, b.vertices[hits[k]]),
                               mm(dist(hits[k])), "Movement", <<>>)]
      IN dedupe_by_zone(found)

(***************************************************************************)
(* FitAnalyzer._recommend_for_issue and _generate_recommendations.         *)
(***************************************************************************)
\* f"{amount:.0f}": an amount printed in whole millimetres, ties to even
Round0f(a) ==
    LET q == a \div AmountScale
        r == a % AmountScale
    IN IF 2 * r < AmountScale THEN q
       ELSE IF 2 * r > AmountScale THEN q + 1
       ELSE IF q % 2 = 0 THEN q ELSE q + 1

\* instructions: the words of the text (with the zone it names, if any) and the
\* amount printed in it
ModificationRecommendation(issue, t, a, loc, priority, words, printed) ==
    [issue |-> issue, modification_type |-> t, amount |-> a, location |-> loc,
     priority |-> priority, instructions |-> <<words, Round0f(printed)>>]

\* f'{issue.body_zone.value}_ease'
ease_location(zone) ==
    CASE zone = "shoulders" -> "shoulders_ease"
      [] zone = "bust" -> "bust_ease"
      [] zone = "waist" -> "waist_ease"
      [] zone = "hips" -> "hips_ease"
      [] zone = "crotch" -> "crotch_ease"
      [] zone = "thighs" -> "thighs_ease"
      [] zone = "knees" -> "knees_ease"
      [] zone = "calves" -> "calves_ease"
      [] zone = "ankles" -> "ankles_ease"
      [] zone = "torso_front" -> "torso_front_ease"
      [] zone = "torso_back" -> "torso_back_ease"

_recommend_for_issue(issue, priority) ==
    IF issue.issue_type = "compression" THEN
        IF issue.body_zone = "shoulders" THEN
            ModificationRecommendation(issue, "gusset", Abs(issue.amount) + mm(20),
                                       "shoulder_seam", priority,
                                       <<"Add diamond gusset at shoulder seam", "">>, Abs(issue.amount) + mm(20))
        ELSE IF issue.body_zone \in {"hips", "thighs"} THEN
            ModificationRecommendation(issue, "let_out", Abs(issue.amount) + mm(10),
                                       "side_seam", priority,
                                       <<"Let out side seams by", "">>, Abs(issue.amount) + mm(10))
        ELSE IF issue.body_zone = "crotch" THEN
            ModificationRecommendation(issue, "gusset", Abs(issue.amount) + mm(30),
                                       "crotch", priority,
                                       <<"Add crotch gusset for", "">>, Abs(issue.amount) + mm(30))
        ELSE None
    ELSE IF issue.issue_type = "gap" THEN
        IF issue.body_zone = "bust" THEN
            ModificationRecommendation(issue, "dart", issue.amount, "bust", priority,
                                       <<"Add bust darts to remove", "">>, issue.amount)
        ELSE IF issue.body_zone = "waist" THEN
            ModificationRecommendation(issue, "take_in", issue.amount, "waist_seam", priority,
                                       <<"Take in waist by", "">>, issue.amount)
        ELSE IF issue.body_zone = "hips" THEN
            ModificationRecommendation(issue, "take_in", issue.amount, "side_seam", priority,
                                       <<"Take in hips by", "">>, issue.amount)
        ELSE None
    ELSE IF issue.issue_type = "too_short" THEN
        IF issue.body_zone = "ankles" THEN
            ModificationRecommendation(issue, "extension", issue.amount + mm(25),
                                       "hem", priority, <<"Add extension at hem", "">>, issue.amount + mm(25))
        ELSE IF issue.body_zone = "crotch" THEN
            ModificationRecommendation(issue, "extension", issue.amount, "rise", priority,
                                       <<"Add to rise", "">>, issue.amount)
        ELSE IF issue.body_zone = "waist" THEN
            ModificationRecommendation(issue, "extension", issue.amount,
                                       "torso_length", priority, <<"Add to body length", "">>,
                                       issue.amount)
        ELSE None
    ELSE IF issue.issue_type = "movement_conflict" THEN
        ModificationRecommendation(issue, "gusset", issue.amount,
                                   ease_location(issue.body_zone), priority,
                                   <<"Add ease gusset at", issue.body_zone>>, issue.amount)
    ELSE None

\* FitIssueSeverity.value, letter by letter: the sort key compares these strings.
Alphabet == <<"a", "b", "c", "d", "e", "f", "g", "h", "i", "j", "k", "l", "m",
              "n", "o", "p", "q", "r", "s", "t", "u", "v", "w", "x", "y", "z">>
Ord(c) == CHOOSE k \in DOMAIN Alphabet : Alphabet[k] = c

severity_value(severity) ==
    CASE severity = "minor" -> <<"m", "i", "n", "o", "r">>
      [] severity = "moderate" -> <<"m", "o", "d", "e", "r", "a", "t", "e">>
      [] severity = "severe" -> <<"s", "e", "v", "e", "r", "e">>
      [] severity = "critical" -> <<"c", "r", "i", "t", "i", "c", "a", "l">>

\* Python's str comparison: -1, 0 or 1
RECURSIVE StrCmp(_, _)
StrCmp(a, b) ==
    IF a = <<>> /\ b = <<>> THEN 0
    ELSE IF a = <<>> THEN -1
    ELSE IF b = <<>> THEN 1
    ELSE IF Ord(Head(a)) < Ord(Head(b)) THEN -1
    ELSE IF Ord(Head(a)) > Ord(Head(b)) THEN 1
    ELSE StrCmp(Tail(a), Tail(b))

\* the sort key (i.severity.value, i.amount) of x is less than that of y
KeyLess(x, y) ==
    LET c == StrCmp(severity_value(x.severity), severity_value(y.severity))
    IN c < 0 \/ (c = 0 /\ x.amount < y.amount)

\* sorted(issues, key=..., reverse=True): stable, descending
RECURSIVE InsertDesc(_, _)
InsertDesc(sorted, x) ==
    IF sorted = <<>> THEN <<x>>
    ELSE IF KeyLess(Head(sorted), x) THEN <<x>> \o sorted
    ELSE <<Head(sorted)>> \o InsertDesc(Tail(sorted), x)

RECURSIVE SortedDesc(_)
SortedDesc(iss) ==
    IF iss = <<>> THEN <<>>
    ELSE InsertDesc(SortedDesc(SubSeq(iss, 1, Len(iss) - 1)), iss[Len(iss)])

\* The priority counter advanced for every issue, also one without a rule.
RECURSIVE recommend_all_counting_skipped(_, _)
recommend_all_counting_skipped(sorted_issues, priority) ==
    IF sorted_issues = <<>> THEN <<>>
    ELSE LET rec == _recommend_for_issue(Head(sorted_issues), priority)
         IN IF rec = None
            THEN recommend_all_counting_skipped(Tail(sorted_issues), priority + 1)
            ELSE <<rec>> \o recommend_all_counting_skipped(Tail(sorted_issues), priority + 1)

RECURSIVE RecommendAll(_, _)
RecommendAll(sorted_issues, priority) ==
    IF sorted_issues = <<>> THEN <<>>
    ELSE LET rec == _recommend_for_issue(Head(sorted_issues), priority)
         IN IF rec = None THEN RecommendAll(Tail(sorted_issues), priority)
            ELSE <<rec>> \o RecommendAll(Tail(sorted_issues), priority + 1)

_generate_recommendations(iss) == RecommendAll(SortedDesc(iss), 1)

(***************************************************************************)
(* FitAnalyzer.analyze, as one step.                                       *)
(***************************************************************************)
RECURSIVE NearestChoices(_, _)
NearestChoices(gverts, pts) ==
    IF pts = <<>> THEN {<<>>}
    ELSE {<<j>> \o rest : j \in NearestIndices(gverts, Head(pts)),
                          rest \in NearestChoices(gverts, Tail(pts))}

analyze_issues(b, g, envelope, dm) ==
    _find_compression_zones(b, dm)
        \o _find_gap_zones(b, dm)
        \o _check_length(b, g)
        \o _check_movement_conflicts(b, g, envelope)

Analyze ==
    /\ mode = "fit"
    /\ overall_fit_score = NotComputed
    /\ \E nn \in NearestChoices(garment.vertices, body.vertices) :
          LET dm == _compute_distance_map(body, garment, nn)
              found == analyze_issues(body, garment, movement_envelope, dm)
          IN /\ nearest' = nn
             /\ distance_map' = dm
             /\ issues' = found
             /\ recommendations' = _generate_recommendations(found)
             /\ overall_fit_score' = _compute_fit_score(found)
    /\ UNCHANGED <<mode, fitInputs, patternVars, meshVars>>

\* body.generate_movement_envelope(profile), before the analyzer is built
GenerateMovementEnvelope ==
    /\ mode = "fit"
    /\ overall_fit_score = NotComputed
    /\ movement_envelope = None
    /\ \E ease_profile \in {"default", "wild"} :
          movement_envelope' = generate_movement_envelope(body, ease_profile)
    /\ UNCHANGED <<mode, body, garment, fitResult, patternVars, meshVars>>

(***************************************************************************)
(* Specification SpecFit: the inputs of one fit analysis.                  *)
(*                                                                         *)
(* The garment is a panel in the plane x = 200 with one vertex at each of  *)
(* three heights and a fourth vertex off the axis; its two faces are wound *)
(* outward, inward, or one each way.  A body vertex sits at one of the     *)
(* heights, at a signed offset from the panel, or the body is the garment  *)
(* mesh itself.  The body's landmarks and both measurement sets are the    *)
(* outcome of the body and garment analysis, taken as inputs.              *)
(***************************************************************************)
PanelVertices == <<<<200, 0, 0>>, <<200, 500, 0>>, <<200, 1000, 0>>, <<200, 500, 300>>>>

PanelFaces(winding) ==
    CASE winding = "out" -> <<<<1, 2, 4>>, <<2, 3, 4>>>>
      [] winding = "in" -> <<<<1, 4, 2>>, <<2, 4, 3>>>>
      [] winding = "mixed" -> <<<<1, 2, 4>>, <<2, 4, 3>>>>

Windings == {"out", "in", "mixed"}

\* signed offsets of a body vertex from the panel: each side of every threshold
Offsets == {-35, -15, -6, 0, 21, 61}
BodyHeights == {500, 1000}
BodyPoints == {<<200 - s, h, 0>> : s \in Offsets, h \in BodyHeights}

NoLandmarks == [n \in {} |-> 0]
LandmarkSets ==
    {NoLandmarks,
     ("waist" :> 600 @@ "hip" :> 500),
     ("shoulder_center" :> 900 @@ "bust_apex_left" :> 750 @@ "waist" :> 600
        @@ "hip" :> 500 @@ "crotch" :> 400 @@ "left_knee" :> 200)}

BodyMeasurements(inseam, outseam, front_rise, torso_length) ==
    [inseam |-> inseam, outseam |-> outseam, front_rise |-> front_rise,
     torso_length |-> torso_length]

GarmentMeasurements(inseam_length, outseam_length, front_rise, body_length, ankle_circumference, waist_circumference) ==
    [inseam_length |-> inseam_length, outseam_length |-> outseam_length,
     front_rise |-> front_rise, body_length |-> body_length,
     ankle_circumference |-> ankle_circumference,
     waist_circumference |-> waist_circumference]

BodyModel(vertices, faces, landmarks, measurements) ==
    [vertices |-> vertices, faces |-> faces, landmarks |-> landmarks,
     measurements |-> measurements]

GarmentModel(vertices, faces, measurements, garment_type) ==
    [vertices |-> vertices, faces |-> faces, measurements |-> measurements,
     garment_type |-> garment_type]

\* <<body inseam, garment inseam>>: 800 against each side of the 10/25/50 thresholds
InseamCases == {<<0, 750>>, <<800, 0>>, <<800, 810>>, <<800, 790>>, <<800, 789>>,
                <<800, 775>>, <<800, 774>>, <<800, 750>>, <<800, 749>>}
OutseamCases == {<<0, 0>>, <<1000, 1000>>, <<1000, 940>>}
RiseCases == {<<0, 0>>, <<250, 250>>, <<250, 235>>, <<250, 215>>}
\* <<body torso length, garment body length, garment type>>
TorsoCases == {<<0, 0, "pants">>, <<400, 350, "pants">>, <<400, 350, "shirt">>,
               <<400, 390, "shirt">>}

FitNotRun ==
    /\ nearest = <<>>
    /\ distance_map = <<>>
    /\ issues = <<>>
    /\ recommendations = <<>>
    /\ overall_fit_score = NotComputed

\* body vertices placed around the panel; nothing measured on either mesh
InitFitGeometry ==
    /\ \E vertices \in UNION {[1..k -> BodyPoints] : k \in 1..MaxBodyVertices},
          landmarks \in LandmarkSets, winding \in Windings :
          /\ body = BodyModel(vertices, <<>>, landmarks, BodyMeasurements(0, 0, 0, 0))
          /\ garment = GarmentModel(PanelVertices, PanelFaces(winding),
                                    GarmentMeasurements(0, 0, 0, 0, 0, 0), "pants")

\* the body is the garment mesh; the measurements vary
InitFitCoincident ==
    /\ \E landmarks \in LandmarkSets, ins \in InseamCases, outs \in OutseamCases,
          rise \in RiseCases, torso \in TorsoCases :
          /\ body = BodyModel(PanelVertices, PanelFaces("out"), landmarks,
                              BodyMeasurements(ins[1], outs[1], rise[1], torso[1]))
          /\ garment = GarmentModel(PanelVertices, PanelFaces("out"),
                                    GarmentMeasurements(ins[2], outs[2], rise[2], torso[2], 0, 0),
                                    torso[3])

InitFit ==
    /\ mode = "fit"
    /\ movement_envelope = None
    /\ FitNotRun
    /\ PatternIdle
    /\ MeshIdle
    /\ (InitFitGeometry \/ InitFitCoincident)

NextFit == GenerateMovementEnvelope \/ Analyze

SpecFit == InitFit /\ [][NextFit]_vars

Analyzed == mode = "fit" /\ overall_fit_score # NotComputed

IssuesWhere(P(_)) == {i \in 1..Len(issues) : P(issues[i])}

\* C3: in every analysis result a compression issue has a strictly negative
\* amount and a gap issue a strictly positive amount.
C3_SignedAmounts ==
    Analyzed =>
        \A i \in 1..Len(issues) :
            /\ issues[i].issue_type = "compression" => issues[i].amount < 0
            /\ issues[i].issue_type = "gap" => issues[i].amount > 0

C3_Witness ==
    /\ Analyzed
    /\ \E i \in 1..Len(issues) :
          issues[i].issue_type = "compression" /\ issues[i].amount = (-15) * AmountScale
    /\ \E i \in 1..Len(issues) :
          issues[i].issue_type = "gap" /\ issues[i].amount = 21 * AmountScale

Coincident == body.vertices = garment.vertices /\ body.faces = garment.faces

\* C4 as stated: a garment mesh coincident with the body mesh yields an empty issue
\* list.  Stated here for the analyses whose length checks find nothing, which is
\* the part of the claim the movement envelope decides.
C4_CoincidentNoIssues ==
    (Analyzed /\ Coincident /\ _check_length(body, garment) = <<>>) => issues = <<>>

\* C4 (amended): a garment mesh coincident with the body mesh yields no compression
\* and no gap issue, the signed distance being zero at every body vertex.
C4_CoincidentNoCompressionNoGap ==
    (Analyzed /\ Coincident) =>
        /\ \A i \in 1..Len(distance_map) : distance_map[i] = 0
        /\ IssuesWhere(LAMBDA x : x.issue_type \in {"compression", "gap"}) = {}

C4_Witness ==
    /\ Analyzed
    /\ Coincident
    /\ movement_envelope # None
    /\ Len(distance_map) = Len(body.vertices)
    /\ IssuesWhere(LAMBDA x : x.issue_type = "movement_conflict") # {}

\* C5: with body inseam b > 0, garment inseam g > 0 and deficit d = b - g > 10 the
\* inseam check yields one too_short issue in the ankles with amount d, severity
\* minor up to 25, moderate up to 50, severe beyond, and its recommendation is an
\* extension at the hem of d + 25; otherwise it yields no inseam issue.
C5_InseamCheck ==
    Analyzed =>
        LET b == body.measurements.inseam
            g == garment.measurements.inseam_length
            d == b - g
            found == IssuesWhere(LAMBDA x : x.description = "Inseam")
        IN IF b > 0 /\ g > 0 /\ d > 10
           THEN /\ Cardinality(found) = 1
                /\ \A i \in found :
                      /\ issues[i].issue_type = "too_short"
                      /\ issues[i].body_zone = "ankles"
                      /\ issues[i].amount = d * AmountScale
                      /\ issues[i].severity =
                            (IF d <= 25 THEN "minor"
                             ELSE IF d <= 50 THEN "moderate" ELSE "severe")
                      /\ Cardinality({r \in 1..Len(recommendations) :
                                         recommendations[r].issue = issues[i]}) = 1
                      /\ \A r \in 1..Len(recommendations) :
                            recommendations[r].issue = issues[i] =>
                               /\ recommendations[r].modification_type = "extension"
                               /\ recommendations[r].location = "hem"
                               /\ recommendations[r].amount = (d + 25) * AmountScale
           ELSE found = {}

C5_Witness ==
    /\ Analyzed
    /\ body.measurements.inseam = 800
    /\ garment.measurements.inseam_length = 750
    /\ \E i \in 1..Len(issues) :
          /\ issues[i].description = "Inseam"
          /\ issues[i].severity = "moderate"
          /\ issues[i].amount = 50 * AmountScale
    /\ \E r \in 1..Len(recommendations) :
          /\ recommendations[r].location = "hem"
          /\ recommendations[r].amount = 75 * AmountScale

\* the body vertices the analyzer places in the hips zone
HipVertices == {i \in 1..Len(body.vertices) :
                   _classify_body_zone(body, body.vertices[i]) = "hips"}

UniformHipCompression ==
    /\ Analyzed
    /\ HipVertices # {}
    /\ \A i \in HipVertices : distance_map[i] = -15
    /\ \A i \in (1..Len(body.vertices)) \ HipVertices :
          ~(distance_map[i] < COMPRESSION_THRESHOLD)

CompressionIssues == IssuesWhere(LAMBDA x : x.issue_type = "compression")

\* C6 as stated: uniform -15mm over the hips yields exactly one compression issue,
\* zone hips, severity severe.
C6_HipCompressionSevere ==
    UniformHipCompression =>
        /\ Cardinality(CompressionIssues) = 1
        /\ \A i \in CompressionIssues :
              issues[i].body_zone = "hips" /\ issues[i].severity = "severe"

\* C6 (amended): uniform -15mm over the hips yields exactly one compression issue,
\* zone hips, severity moderate (severe only below -20mm).
C6_HipCompressionModerate ==
    UniformHipCompression =>
        /\ Cardinality(CompressionIssues) = 1
        /\ \A i \in CompressionIssues :
              /\ issues[i].body_zone = "hips"
              /\ issues[i].severity = "moderate"
              /\ issues[i].amount = (-15) * AmountScale

C6_Witness ==
    /\ UniformHipCompression
    /\ Cardinality(HipVertices) = 2
    /\ Cardinality(CompressionIssues) = 1

(***************************************************************************)
(* Claims about the issue list of one analysis.                            *)
(***************************************************************************)
IssuesOf(t, zone) ==
    {i \in 1..Len(issues) : issues[i].issue_type = t /\ issues[i].body_zone = zone}

\* C11: in one analysis every body zone has at most one compression issue
\* and at most one gap issue, however many of its vertices cross the
\* thresholds.
C11_OneCompressionOneGapPerZone ==
    Analyzed =>
        \A zone \in BodyZone :
            /\ Cardinality(IssuesOf("compression", zone)) <= 1
            /\ Cardinality(IssuesOf("gap", zone)) <= 1

C11_Witness ==
    /\ Analyzed
    /\ \E i \in 1..Len(issues) :
          /\ issues[i].issue_type \in {"compression", "gap"}
          /\ Len(issues[i].affected_vertices) >= 2
          /\ \E j, k \in 1..Len(issues[i].affected_vertices) :
                body.vertices[issues[i].affected_vertices[j]]
                    # body.vertices[issues[i].affected_vertices[k]]

\* C12 as stated: no two issues of a result share the pair (issue type,
\* body zone), the too_short issues of the length checks included.
C12_UniqueTypeZone ==
    Analyzed =>
        \A t \in FitIssueType, zone \in BodyZone : Cardinality(IssuesOf(t, zone)) <= 1

\* C12 (amended): no two compression, gap or movement_conflict issues of a
\* result share the pair (issue type, body zone), and no two too_short
\* issues come from the same length check; the inseam and the outseam check
\* each put their own too_short issue in the ankles.
C12_UniqueTypeZonePerCheck ==
    Analyzed =>
        /\ \A t \in {"compression", "gap", "movement_conflict"}, zone \in BodyZone :
              Cardinality(IssuesOf(t, zone)) <= 1
        /\ \A i, j \in 1..Len(issues) :
              (/\ i # j
               /\ issues[i].issue_type = "too_short"
               /\ issues[j].issue_type = "too_short")
                  => issues[i].description # issues[j].description
        /\ \A i \in 1..Len(issues) :
              issues[i].issue_type = "too_short" =>
                  issues[i].body_zone =
                      (CASE issues[i].description = "Inseam" -> "ankles"
                         [] issues[i].description = "Outseam" -> "ankles"
                         [] issues[i].description = "Rise" -> "crotch"
                         [] issues[i].description = "Torso" -> "waist")

C12_Witness ==
    /\ Analyzed
    /\ Cardinality(IssuesOf("too_short", "ankles")) = 2
    /\ \E zone \in BodyZone : IssuesOf("movement_conflict", zone) # {}

SeverityRank(sev) ==
    CASE sev = "minor" -> 1
      [] sev = "moderate" -> 2
      [] sev = "severe" -> 3
      [] sev = "critical" -> 4

\* C13: of any two recommendations of a result, the one whose issue is
\* strictly more severe (minor < moderate < severe < critical) has the
\* smaller priority number.
C13_MoreSevereFirst ==
    Analyzed =>
        \A i, j \in 1..Len(recommendations) :
            SeverityRank(recommendations[i].issue.severity)
                > SeverityRank(recommendations[j].issue.severity)
            => recommendations[i].priority < recommendations[j].priority

(***************************************************************************)
(* pattern_generator.py: PatternGenerator.  Lengths of a pattern are in    *)
(* pattern units, PatternScale to the millimetre, so that the halves,      *)
(* quarters and the 0.95 and 0.8 tapers of the code are exact.             *)
(***************************************************************************)
MaxPatternIssues == 3   \* most issues behind one list of recommendations

PatternScale == 80 * AmountScale
from_mm(x) == x * PatternScale
from_amount(a) == a * 80

FabricTypes == {"woven", "knit", "denim", "default", "leather"}

SEAM_ALLOWANCES(fabric) ==
    CASE fabric = "woven" -> 15
      [] fabric = "knit" -> 10
      [] fabric = "denim" -> 15
      [] fabric = "default" -> 12
      [] OTHER -> 12

\* self.seam_allowance
seam_allowance == from_mm(SEAM_ALLOWANCES(fabric_type))

\* zone.value.title()
Title(zone) ==
    CASE zone = "shoulders" -> "Shoulders"
      [] zone = "bust" -> "Bust"
      [] zone = "waist" -> "Waist"
      [] zone = "hips" -> "Hips"
      [] zone = "crotch" -> "Crotch"
      [] zone = "thighs" -> "Thighs"
      [] zone = "knees" -> "Knees"
      [] zone = "calves" -> "Calves"
      [] zone = "ankles" -> "Ankles"
      [] zone = "torso_front" -> "Torso_Front"
      [] zone = "torso_back" -> "Torso_Back"

\* name is the format of the text and the word put into it.  The stitch
\* line, notches, grain line, labels and area are not modelled.
GeneratedPattern(name, piece_type, outline, sa, instructions, dimensions_mm) ==
    [name |-> name, piece_type |-> piece_type, outline |-> outline,
     seam_allowance |-> sa, instructions |-> instructions,
     dimensions_mm |-> dimensions_mm]

\* A tapered panel whose bottom edge starts under the top left corner.
create_tapered_panel_uncentred(name, height, top_width, bottom_width, instructions) ==
    GeneratedPattern(name, "extension",
                     <<<<0, height>>, <<top_width, height>>, <<bottom_width, 0>>,
                       <<0, 0>>, <<0, height>>>>,
                     seam_allowance, instructions,
                     <<Max(top_width, bottom_width), height>>)

_create_tapered_panel(name, height, top_width, bottom_width, instructions) ==
    LET top_left == <<0, height>>
        top_right == <<top_width, height>>
        offset == (top_width - bottom_width) \div 2
        bottom_left == <<offset, 0>>
        bottom_right == <<offset + bottom_width, 0>>
    IN GeneratedPattern(name, "extension",
                        <<top_left, top_right, bottom_right, bottom_left, top_left>>,
                        seam_allowance, instructions,
                        <<Max(top_width, bottom_width), height>>)

_create_rectangular_panel(name, width, height, instructions) ==
    GeneratedPattern(name, "extension",
                     <<<<0, height>>, <<width, height>>, <<width, 0>>, <<0, 0>>,
                       <<0, height>>>>,
                     seam_allowance, instructions, <<width, height>>)

_create_diamond_gusset(name, width, height, instructions) ==
    LET top == <<width \div 2, height>>
        right == <<width, height \div 2>>
        bottom == <<width \div 2, 0>>
        left == <<0, height \div 2>>
    IN GeneratedPattern(name, "gusset", <<top, right, bottom, left, top>>,
                        seam_allowance, instructions, <<width, height>>)

\* Of the twenty samples of each curve only the two tips (t = 0 and t = 1)
\* are kept: top curve, bottom curve reversed, and the closing point.
_create_football_gusset(name, length, width, instructions) ==
    GeneratedPattern(name, "gusset",
                     <<<<0, width \div 2>>, <<length, width \div 2>>,
                       <<length, width \div 2>>, <<0, width \div 2>>,
                       <<0, width \div 2>>>>,
                     seam_allowance, instructions, <<length, width>>)

\* A dart marker that carries the generator's seam allowance.
create_dart_marker_with_allowance(name, dart_width, dart_length, instructions) ==
    GeneratedPattern(name, "dart",
                     <<<<dart_width \div 2, dart_length>>, <<dart_width, 0>>, <<0, 0>>,
                       <<dart_width \div 2, dart_length>>>>,
                     seam_allowance, instructions, <<dart_width, dart_length>>)

_create_dart_marker(name, dart_width, dart_length, instructions) ==
    LET apex == <<dart_width \div 2, dart_length>>
        left == <<0, 0>>
        right == <<dart_width, 0>>
    IN GeneratedPattern(name, "dart", <<apex, right, left, apex>>, 0, instructions,
                        <<dart_width, dart_length>>)

_generate_extension(rec, g) ==
    LET amount == from_amount(rec.amount)
        zone == rec.issue.body_zone
    IN IF zone = "ankles" THEN
           LET top_circ == IF g.measurements.ankle_circumference # 0
                           THEN from_mm(g.measurements.ankle_circumference)
                           ELSE from_mm(200)
               bottom_circ == (top_circ * 19) \div 20
               top_width == top_circ \div 2 + seam_allowance * 2
               bottom_width == bottom_circ \div 2 + seam_allowance * 2
           IN _create_tapered_panel(<<"Leg Extension - {}", zone>>,
                                    amount + seam_allowance * 2,
                                    top_width, bottom_width, rec.instructions)
       ELSE IF zone = "crotch" THEN
           LET waist_circ == IF g.measurements.waist_circumference # 0
                             THEN from_mm(g.measurements.waist_circumference)
                             ELSE from_mm(800)
           IN _create_rectangular_panel(<<"Rise Extension", "">>,
                                        waist_circ \div 4 + seam_allowance * 2,
                                        amount + seam_allowance * 2, rec.instructions)
       ELSE IF zone = "waist" THEN
           LET waist_circ == IF g.measurements.waist_circumference # 0
                             THEN from_mm(g.measurements.waist_circumference)
                             ELSE from_mm(800)
           IN _create_rectangular_panel(<<"Torso Extension Band", "">>,
                                        waist_circ \div 2 + seam_allowance * 2,
                                        amount + seam_allowance * 2, rec.instructions)
       ELSE None

_generate_gusset(rec, g) ==
    LET amount == from_amount(rec.amount)
        zone == rec.issue.body_zone
    IN IF zone = "shoulders" THEN
           _create_diamond_gusset(<<"Shoulder Gusset", "">>, amount + seam_allowance * 2,
                                  (amount * 3) \div 2, rec.instructions)
       ELSE IF zone = "crotch" THEN
           _create_football_gusset(<<"Crotch Gusset", "">>, amount * 2, amount,
                                   rec.instructions)
       ELSE IF zone \in {"thighs", "knees"} THEN
           _create_diamond_gusset(<<"{} Ease Gusset", Title(zone)>>,
                                  amount + seam_allowance * 2, amount, rec.instructions)
       ELSE None

_generate_dart_template(rec, g) ==
    LET amount == from_amount(rec.amount)
        zone == rec.issue.body_zone
        dart_width == amount \div 2
        dart_length == Min(amount * 4, from_mm(150))
    IN _create_dart_marker(<<"{} Dart Guide", Title(zone)>>, dart_width, dart_length,
                           rec.instructions)

_generate_let_out_panel(rec, g) ==
    LET amount == from_amount(rec.amount)
        zone == rec.issue.body_zone
        height == IF zone \in {"hips", "thighs"}
                  THEN IF g.measurements.outseam_length # 0
                       THEN from_mm(g.measurements.outseam_length) \div 2
                       ELSE from_mm(400)
                  ELSE from_mm(200)
    IN _create_tapered_panel(<<"Side Panel Insert - {}", zone>>,
                             height + seam_allowance * 2,
                             amount + seam_allowance * 2,
                             (amount * 4) \div 5 + seam_allowance * 2,
                             rec.instructions)

\* the pattern of one recommendation, None where the loop appends nothing
pattern_for(rec, g) ==
    IF rec.modification_type = "extension" THEN _generate_extension(rec, g)
    ELSE IF rec.modification_type = "gusset" THEN _generate_gusset(rec, g)
    ELSE IF rec.modification_type = "dart" THEN _generate_dart_template(rec, g)
    ELSE IF rec.modification_type = "let_out" THEN _generate_let_out_panel(rec, g)
    ELSE None

RECURSIVE generate_from_recommendations(_, _)
generate_from_recommendations(recs, g) ==
    IF recs = <<>> THEN <<>>
    ELSE LET pattern == pattern_for(Head(recs), g)
         IN (IF pattern = None THEN <<>> ELSE <<pattern>>)
            \o generate_from_recommendations(Tail(recs), g)

GeneratePatterns ==
    /\ mode = "pattern"
    /\ patterns' = generate_from_recommendations(recommendations, garment)
    /\ mode' = "patterns_done"
    /\ UNCHANGED <<fitInputs, fitResult, fabric_type, panel_args, meshVars>>

CreateTaperedPanel ==
    /\ mode = "panel"
    /\ patterns' = <<_create_tapered_panel(<<"Panel", "">>, from_mm(panel_args.height),
                                           from_mm(panel_args.top_width),
                                           from_mm(panel_args.bottom_width),
                                           <<<<"", "">>, 0>>)>>
    /\ mode' = "panel_done"
    /\ UNCHANGED <<fitInputs, fitResult, fabric_type, panel_args, meshVars>>

\* Issues in the order analyze() collects them: compression, gap, length,
\* movement conflict.  Compression in the waist and gap in the thighs have
\* no recommendation.
PatternIssues ==
    <<FitIssue("compression", "moderate", "shoulders", mm(-15), "Compression", <<1>>),
      FitIssue("compression", "moderate", "hips", mm(-31) \div 2, "Compression", <<1>>),
      FitIssue("compression", "critical", "crotch", mm(-35), "Compression", <<1>>),
      FitIssue("compression", "minor", "waist", mm(-6), "Compression", <<1>>),
      FitIssue("gap", "minor", "bust", mm(21), "Gap", <<1>>),
      FitIssue("gap", "moderate", "waist", mm(41), "Gap", <<1>>),
      FitIssue("gap", "severe", "thighs", mm(61), "Gap", <<1>>),
      FitIssue("too_short", "moderate", "ankles", mm(26), "Inseam", <<>>),
      FitIssue("too_short", "severe", "ankles", mm(51), "Outseam", <<>>),
      FitIssue("too_short", "moderate", "crotch", mm(15), "Rise", <<>>),
      FitIssue("too_short", "moderate", "waist", mm(21), "Torso", <<>>),
      FitIssue("movement_conflict", "moderate", "shoulders", mm(40), "Movement", <<>>),
      FitIssue("movement_conflict", "moderate", "hips", mm(40), "Movement", <<>>),
      FitIssue("movement_conflict", "moderate", "crotch", mm(60), "Movement", <<>>),
      FitIssue("movement_conflict", "moderate", "knees", mm(31), "Movement", <<>>)>>

IssueLists ==
    {LET picked == SelectIdx(Len(PatternIssues), LAMBDA i : i \in I, 1)
     IN [k \in 1..Len(picked) |-> PatternIssues[picked[k]]] :
       I \in {J \in SUBSET (1..Len(PatternIssues)) : Cardinality(J) <= MaxPatternIssues}}

\* <<ankle circumference, waist circumference, outseam length>>
PatternGarments == {<<0, 0, 0>>, <<250, 820, 1000>>}

PanelWidths == {100, 101, 150, 300}
PanelHeights == {1, 55, 400}

InitGenerate ==
    /\ mode = "pattern"
    /\ body = None
    /\ movement_envelope = None
    /\ nearest = <<>>
    /\ distance_map = <<>>
    /\ \E m \in PatternGarments :
          garment = GarmentModel(<<>>, <<>>,
                                 GarmentMeasurements(0, m[3], 0, 0, m[1], m[2]), "pants")
    /\ issues \in IssueLists
    /\ recommendations = _generate_recommendations(issues)
    /\ overall_fit_score = _compute_fit_score(issues)
    /\ fabric_type \in FabricTypes
    /\ panel_args = <<>>
    /\ patterns = <<>>
    /\ MeshIdle

InitPanel ==
    /\ mode = "panel"
    /\ body = None
    /\ garment = None
    /\ movement_envelope = None
    /\ FitNotRun
    /\ fabric_type \in FabricTypes
    /\ panel_args \in [top_width : PanelWidths, bottom_width : PanelWidths,
                       height : PanelHeights]
    /\ patterns = <<>>
    /\ MeshIdle

InitPattern == InitGenerate \/ InitPanel

NextPattern == GeneratePatterns \/ CreateTaperedPanel

SpecPattern == InitPattern /\ [][NextPattern]_vars

PatternsGenerated == mode = "patterns_done"

\* the recommendations a pattern was drawn for: those whose instructions it carries
RecsOf(p) == {i \in 1..Len(recommendations) :
                 recommendations[i].instructions = p.instructions}

\* C7: every pattern generated for a dart recommendation has seam allowance 0
\* and every pattern generated for an extension, gusset or let_out
\* recommendation has a seam allowance above 0, whatever the fabric type.
C7_SeamAllowance ==
    PatternsGenerated =>
        \A k \in 1..Len(patterns) :
            /\ RecsOf(patterns[k]) # {}
            /\ \A i \in RecsOf(patterns[k]) :
                  IF recommendations[i].modification_type = "dart"
                  THEN patterns[k].seam_allowance = 0
                  ELSE /\ recommendations[i].modification_type
                            \in {"extension", "gusset", "let_out"}
                       /\ patterns[k].seam_allowance > 0

C7_Witness ==
    /\ PatternsGenerated
    /\ fabric_type = "leather"
    /\ \E k \in 1..Len(patterns) : patterns[k].piece_type = "dart"
    /\ \E k \in 1..Len(patterns) : patterns[k].piece_type = "gusset"

NonTakeIn == {i \in 1..Len(recommendations) :
                 recommendations[i].modification_type # "take_in"}

\* C8: the generator returns exactly one pattern for each recommendation
\* whose type is not take_in, every gusset and every extension included.
C8_OnePatternPerRecommendation ==
    PatternsGenerated =>
        /\ Len(patterns) = Cardinality(NonTakeIn)
        /\ \A i \in NonTakeIn :
              \E k \in 1..Len(patterns) :
                  patterns[k].instructions = recommendations[i].instructions

XExtentAt(outline, y) ==
    LET xs == {outline[k][1] : k \in {j \in 1..Len(outline) : outline[j][2] = y}}
    IN <<SetMin(xs), SetMax(xs)>>

PanelCreated == mode = "panel_done"

\* C9: a tapered panel created with W1 >= W2 > 0 spans exactly W1 at y = H
\* and exactly W2 at y = 0, its bottom edge is centred under its top edge,
\* and its outline ends at the point it starts from.
C9_TaperedPanelOutline ==
    (/\ PanelCreated
     /\ panel_args.top_width >= panel_args.bottom_width
     /\ panel_args.bottom_width > 0) =>
        LET outline == patterns[1].outline
            top == XExtentAt(outline, from_mm(panel_args.height))
            bottom == XExtentAt(outline, 0)
        IN /\ top[2] - top[1] = from_mm(panel_args.top_width)
           /\ bottom[2] - bottom[1] = from_mm(panel_args.bottom_width)
           /\ top[1] + top[2] = bottom[1] + bottom[2]
           /\ outline[Len(outline)] = outline[1]
           /\ \A k \in 1..Len(outline) :
                 outline[k][2] \in {0, from_mm(panel_args.height)}

C9_Witness ==
    /\ PanelCreated
    /\ panel_args.top_width = 101
    /\ panel_args.bottom_width = 100
    /\ patterns[1].outline[4] # <<0, 0>>


(***************************************************************************)
(* mesh_processing.py: MeshProcessor.orient_body.  Coordinates of a mesh   *)
(* are integers over the mesh's denominator: centring n vertices multiplies*)
(* the denominator by n, a rotation by RotationScale.                      *)
(***************************************************************************)
MaxMeshVertices == 3    \* most vertices of a mesh handed to orient_body

\* vertices[k][i] / denominator is coordinate i of vertex k; is_nan says the
\* array holds NaN instead of numbers.
ProcessedMesh(vertices, denominator, is_nan, mesh_type, processing_log) ==
    [vertices |-> vertices, denominator |-> denominator, is_nan |-> is_nan,
     mesh_type |-> mesh_type, processing_log |-> processing_log]

RECURSIVE SumVectors(_)
SumVectors(vs) == IF vs = <<>> THEN <<0, 0, 0>>
                  ELSE Plus(Head(vs), SumVectors(Tail(vs)))

\* vertices -= vertices.mean(axis=0), over the denominator Len(vs)
centre_on_mean(vs) ==
    [k \in 1..Len(vs) |-> Sub(Scaled(Len(vs), vs[k]), SumVectors(vs))]

\* np.cov up to its positive factor 1 / (n - 1): the scatter matrix
RECURSIVE scatter(_)
scatter(cs) ==
    IF cs = <<>> THEN <<<<0, 0, 0>>, <<0, 0, 0>>, <<0, 0, 0>>>>
    ELSE LET c == Head(cs)
             rest == scatter(Tail(cs))
         IN [i \in 1..3 |-> [j \in 1..3 |-> c[i] * c[j] + rest[i][j]]]

MatVec(m, v) == <<Dot(m[1], v), Dot(m[2], v), Dot(m[3], v)>>

\* Unit vectors with rational entries, as integer rows of length
\* RotationScale: the axes and the 3-4-5 directions, in any sign.
RotationScale == 5
RotationRows == {r \in [1..3 -> {-5, -4, -3, 0, 3, 4, 5}] :
                    Dot(r, r) = RotationScale * RotationScale}

\* r' m r, RotationScale^2 times the eigenvalue of an eigenvector r
quadratic_form(m, r) == Dot(r, MatVec(m, r))

EigenRows(m) ==
    {r \in RotationRows :
        Scaled(RotationScale * RotationScale, MatVec(m, r))
            = Scaled(quadratic_form(m, r), r)}

\* What np.linalg.eigh and the descending argsort can return for the scatter
\* matrix m: orthonormal rows that are eigenvectors of m, largest eigenvalue
\* first.  Eigenvectors are determined up to sign, and up to a change of
\* basis where eigenvalues coincide.
EigenBases(m) ==
    LET rows == EigenRows(m)
        value == [r \in rows |-> quadratic_form(m, r)]
    IN UNION {UNION {{<<r1, r2, r3>> :
                        r3 \in {r \in rows : /\ Dot(r1, r) = 0
                                              /\ Dot(r2, r) = 0
                                              /\ value[r2] >= value[r]}} :
                     r2 \in {r \in rows : Dot(r1, r) = 0 /\ value[r1] >= value[r]}} :
              r1 \in rows}

\* vertices @ rotation.T, over the denominator multiplied by RotationScale
rotate(vs, rotation) == [k \in 1..Len(vs) |-> MatVec(rotation, vs[k])]

RECURSIVE InsertAsc(_, _)
InsertAsc(sorted, x) ==
    IF sorted = <<>> THEN <<x>>
    ELSE IF x < Head(sorted) THEN <<x>> \o sorted
    ELSE <<Head(sorted)>> \o InsertAsc(Tail(sorted), x)

RECURSIVE SortAsc(_)
SortAsc(s) == IF s = <<>> THEN <<>> ELSE InsertAsc(SortAsc(Tail(s)), Head(s))

\* 10 * np.percentile(ys, 10 * tenths): linear interpolation between the
\* two order statistics around position (n - 1) * tenths / 10
percentile_times_10(ys, tenths) ==
    LET sorted == SortAsc(ys)
        position == (Len(ys) - 1) * tenths
        lower == position \div 10 + 1
        fraction == position % 10
    IN IF fraction = 0 THEN 10 * sorted[lower]
       ELSE 10 * sorted[lower] + fraction * (sorted[lower + 1] - sorted[lower])

\* np.std of the x and z coordinates of the vertices in I, all in one
\* array: count^2 * variance, with the count of numbers
spread_numerator(vs, I) ==
    LET count == 2 * Cardinality(I)
        picked == SelectIdx(Len(vs), LAMBDA k : k \in I, 1)
        total == SumSeq([j \in 1..Len(picked) |->
                            vs[picked[j]][1] + vs[picked[j]][3]])
        squares == SumSeq([j \in 1..Len(picked) |->
                              vs[picked[j]][1] * vs[picked[j]][1]
                                  + vs[picked[j]][3] * vs[picked[j]][3]])
    IN count * squares - total * total

\* bottom_spread > top_spread; the spread of no vertices is NaN, and a
\* comparison with NaN is false
upside_down(vs) ==
    LET y_coords == [k \in 1..Len(vs) |-> vs[k][2]]
        bottom == {k \in 1..Len(vs) : 10 * y_coords[k] < percentile_times_10(y_coords, 1)}
        top == {k \in 1..Len(vs) : 10 * y_coords[k] > percentile_times_10(y_coords, 9)}
    IN /\ bottom # {}
       /\ top # {}
       /\ spread_numerator(vs, bottom) * Cardinality(top) * Cardinality(top)
            > spread_numerator(vs, top) * Cardinality(bottom) * Cardinality(bottom)

flip_y(vs) == [k \in 1..Len(vs) |-> <<vs[k][1], 0 - vs[k][2], vs[k][3]>>]

\* The ways one call can end: raised says an exception left the call, and
\* processed is the mesh as the call leaves it.  With a single vertex the
\* covariance is 0/0 in every entry; eigh then either fails to converge
\* and raises, or hands back NaN, which the product spreads to every
\* coordinate.
orient_body(p) ==
    LET n == Len(p.vertices)
        centred == centre_on_mean(p.vertices)
        log1 == Append(p.processing_log, "Centered mesh at origin")
        log2 == Append(log1, "Aligned principal axis with Y (height)")
    IN IF n < 2
       THEN {[raised |-> TRUE,
              processed |-> ProcessedMesh(p.vertices, p.denominator, p.is_nan,
                                          p.mesh_type, log1)],
             [raised |-> FALSE,
              processed |-> ProcessedMesh(centred, p.denominator * n, TRUE, "body", log2)]}
       ELSE {LET vertices == rotate(centred, rotation)
                 flipped == upside_down(vertices)
             IN [raised |-> FALSE,
                 processed |->
                     ProcessedMesh(IF flipped THEN flip_y(vertices) ELSE vertices,
                                   p.denominator * n * RotationScale, FALSE, "body",
                                   IF flipped
                                   THEN Append(log2, "Flipped mesh (was upside down)")
                                   ELSE log2)] :
               rotation \in EigenBases(scatter(centred))}

OrientBody ==
    /\ mode = "orient"
    /\ \E outcome \in orient_body(processed) :
          /\ processed' = outcome.processed
          /\ mode' = IF outcome.raised THEN "orient_raised" ELSE "orient_done"
    /\ UNCHANGED <<fitInputs, fitResult, patternVars, analysisVars>>

\* the origin, points on the axes, points along 3-4-5 directions, and three
\* points of a triangle whose principal axes are 3-4-5 directions
MeshPoints == {<<0, 0, 0>>, <<8, 0, 0>>, <<0, 0, 3>>, <<4, 3, 0>>, <<0, 4, 3>>,
               <<-4, -4, 0>>, <<-3, 1, 0>>, <<-1, -3, 0>>}
InputMeshes ==
    {vs \in UNION {[1..n -> MeshPoints] : n \in 1..MaxMeshVertices} :
        Len(vs) < 2 \/ EigenBases(scatter(centre_on_mean(vs))) # {}}

InitOrient ==
    /\ mode = "orient"
    /\ body = None
    /\ garment = None
    /\ movement_envelope = None
    /\ FitNotRun
    /\ PatternIdle
    /\ AnalysisIdle
    /\ \E vs \in InputMeshes :
          processed = ProcessedMesh(vs, 1, FALSE, "unknown", <<>>)

NextOrient == OrientBody

SpecOrient == InitOrient /\ [][NextOrient]_vars

OrientEnded == mode \in {"orient_done", "orient_raised"}

Flipped == "Flipped mesh (was upside down)" \in Range(processed.processing_log)

MeanZero ==
    /\ ~processed.is_nan
    /\ SumVectors(processed.vertices) = <<0, 0, 0>>

\* C10: for every input mesh orient_body produces vertices whose mean is
\* zero on all three axes, whether or not the up/down flip is applied.
C10_OrientBodyCentred ==
    OrientEnded => (mode = "orient_done" /\ MeanZero)

\* From two vertices on, every call returns and the vertices it leaves have
\* mean zero on all three axes, flipped or not.
OrientBodyCentredFromTwoVertices ==
    (OrientEnded /\ Len(processed.vertices) >= 2) => (mode = "orient_done" /\ MeanZero)

OrientBodyFlippedOffAxis ==
    /\ mode = "orient_done"
    /\ Flipped
    /\ \E k \in 1..Len(processed.vertices) :
          Cardinality({i \in 1..3 : processed.vertices[k][i] # 0}) >= 2

(***************************************************************************)
(* body_model.py: BodyModel.                                               *)
(*                                                                         *)
(* The vertices of a body are kept as horizontal rings: a ring is `count`  *)
(* vertices on the square of half-side r around the Y axis at height y     *)
(* (its four corners first).  The convex hull of the vertices of a slice   *)
(* is then the largest square of the slice: its perimeter is 8r, its width *)
(* 2r and the mean of its hull points lies on the axis.  A landmark is     *)
(* kept as its X and Y coordinates.                                        *)
(***************************************************************************)
MaxAnalyses == 2        \* most analyze calls made on one BodyModel

\* min_y is 0; the cross-section heights np.linspace(1, BodyHeight - 1, n) are
\* whole for every n of SectionCounts.
BodyHeight == 1800 + 2
SectionCounts == {26, 16, 2}

Ring(y, r, count) == [y |-> y, r |-> r, count |-> count]

CrossSection(height, circumference, width) ==
    [height |-> height, circumference |-> circumference, width |-> width]

Landmark(x, y) == [x |-> x, y |-> y]

DefaultBodyMeasurements ==
    [total_height |-> 0, shoulder_height |-> 0, bust_height |-> 0, waist_height |-> 0,
     hip_height |-> 0, crotch_height |-> 0, knee_height |-> 0, ankle_height |-> 0,
     bust_circumference |-> 0, waist_circumference |-> 0, hip_circumference |-> 0,
     thigh_circumference |-> 0, knee_circumference |-> 0, ankle_circumference |-> 0,
     shoulder_width |-> 0, waist_width |-> 0, hip_width |-> 0,
     torso_length |-> 0, front_rise |-> 0, back_rise |-> 0, inseam |-> 0, outseam |-> 0]

\* BodyModel.__init__; state is the position of the object in its analysis,
\* returned the value of its last generate_movement_envelope or to_dict call.
NewBodyModel(rings) ==
    [vertices |-> rings,
     min_y |-> SetMin({rings[k].y : k \in DOMAIN rings}),
     max_y |-> SetMax({rings[k].y : k \in DOMAIN rings}),
     height |-> SetMax({rings[k].y : k \in DOMAIN rings})
                  - SetMin({rings[k].y : k \in DOMAIN rings}),
     landmarks |-> [name \in {} |-> Landmark(0, 0)],
     cross_sections |-> [h \in {} |-> CrossSection(0, 0, 0)],
     measurements |-> DefaultBodyMeasurements,
     state |-> "Uninitialized",
     num_sections |-> 0,
     analyses |-> 0,
     returned |-> None]

Put(f, key, value) == [x \in DOMAIN f \cup {key} |-> IF x = key THEN value ELSE f[x]]

\* np.linspace(min_y + 1, max_y - 1, num_sections), indexed from 0.
linspace(m, num_sections) ==
    [i \in 0..(num_sections - 1) |->
        IF num_sections = 1 THEN m.min_y + 1
        ELSE m.min_y + 1 + (i * (m.height - 2)) \div (num_sections - 1)]

\* The rings with np.abs(y - height) < slice_thickness, slice_thickness being
\* (max_y - min_y) / num_sections.
slice_mask(m, height, num_sections) ==
    {k \in DOMAIN m.vertices : num_sections * Abs(m.vertices[k].y - height) < m.height}

\* BodyModel._generate_cross_sections: the cross_sections dict after the call.
\* A slice of fewer than 10 vertices is skipped, and so is one whose vertices
\* all lie on the axis (ConvexHull raises, the except clause continues).
_generate_cross_sections(m, num_sections) ==
    LET heights == linspace(m, num_sections)
        count(h) == SumSeq([k \in DOMAIN m.vertices |->
                              IF k \in slice_mask(m, h, num_sections)
                              THEN m.vertices[k].count ELSE 0])
        reach(h) == SetMax({m.vertices[k].r : k \in slice_mask(m, h, num_sections)})
        kept == {heights[i] : i \in {j \in DOMAIN heights :
                    /\ count(heights[j]) >= 10
                    /\ reach(heights[j]) > 0}}
    IN [h \in DOMAIN m.cross_sections \cup kept |->
          IF h \in kept THEN CrossSection(h, 8 * reach(h), 2 * reach(h))
          ELSE m.cross_sections[h]]

\* sorted(self.cross_sections.keys()), indexed from 0.
RECURSIVE SortedFrom(_, _)
SortedFrom(S, i) ==
    IF S = {} THEN [x \in {} |-> 0]
    ELSE LET least == SetMin(S)
             rest == SortedFrom(S \ {least}, i + 1)
         IN [x \in {i} \cup DOMAIN rest |-> IF x = i THEN least ELSE rest[x]]

sorted_heights(cross_sections) == SortedFrom(DOMAIN cross_sections, 0)

\* The kernel of scipy's gaussian_filter1d for sigma = 3 (radius 12), in
\* thousandths of its central weight; the common factor changes no comparison
\* the detection makes.
GaussianWeights == <<1000, 946, 801, 607, 411, 249, 135, 66, 29, 11, 4, 1, 0>>
GaussianRadius == Len(GaussianWeights) - 1

\* Boundary mode 'reflect' of scipy.ndimage: (d c b a | a b c d | d c b a).
reflect(i, n) ==
    LET wrapped == (i + 2 * n * GaussianRadius) % (2 * n)
    IN IF wrapped < n THEN wrapped ELSE 2 * n - 1 - wrapped

RECURSIVE correlate_from(_, _, _, _)
correlate_from(signal, n, i, j) ==
    IF j > GaussianRadius THEN 0
    ELSE GaussianWeights[Abs(j) + 1] * signal[reflect(i + j, n)]
           + correlate_from(signal, n, i, j + 1)

gaussian_filter1d(signal, n) ==
    [i \in 0..(n - 1) |-> correlate_from(signal, n, i, 0 - GaussianRadius)]

\* np.argmin / np.argmax of signal[lo:hi]: the first index of the extreme value,
\* counted from lo.
argmin(signal, lo, hi) ==
    (CHOOSE i \in lo..(hi - 1) :
        \A j \in lo..(hi - 1) : signal[i] < signal[j] \/ (signal[i] = signal[j] /\ i <= j)) - lo

argmax(signal, lo, hi) ==
    (CHOOSE i \in lo..(hi - 1) :
        \A j \in lo..(hi - 1) : signal[i] > signal[j] \/ (signal[i] = signal[j] /\ i <= j)) - lo

\* np.searchsorted(heights, value): value is numerator / denominator.
searchsorted(heights, numerator, denominator) ==
    Cardinality({i \in DOMAIN heights : denominator * heights[i] < numerator})

\* len(signal[lo:hi]) of a signal of length n.
slice_len(lo, hi) == IF hi > lo THEN hi - lo ELSE 0

\* _detect_landmarks, lines 359-379: the crotch is looked for only when HIP is
\* among the landmarks, two sections above the first drop below 60% of the
\* hip circumference.
detect_crotch(landmarks, heights, circ_smooth) ==
    IF "hip" \notin DOMAIN landmarks THEN landmarks
    ELSE LET hip_idx == searchsorted(heights, landmarks["hip"].y, 1)
             drops == {i \in 0..(hip_idx - 1) :
                          10 * circ_smooth[i] < 6 * circ_smooth[hip_idx]}
         IN IF hip_idx > 10 /\ drops # {}
            THEN Put(landmarks, "crotch", Landmark(0, heights[SetMax(drops) + 2]))
            ELSE landmarks

\* _detect_landmarks, lines 381-402: the knees are looked for only when CROTCH
\* is among the landmarks, at 45% of the leg above the lowest section.
detect_knees(landmarks, cross_sections, heights) ==
    IF "crotch" \notin DOMAIN landmarks THEN landmarks
    ELSE LET leg_length == landmarks["crotch"].y - heights[0]
             knee_idx == searchsorted(heights, 20 * heights[0] + 9 * leg_length, 20)
         IN IF knee_idx > 0 /\ knee_idx < Cardinality(DOMAIN heights)
            THEN LET knee_height == heights[knee_idx]
                     quarter == cross_sections[knee_height].width \div 4
                 IN Put(Put(landmarks, "left_knee", Landmark(0 - quarter, knee_height)),
                        "right_knee", Landmark(quarter, knee_height))
            ELSE landmarks

\* BodyModel._detect_landmarks: whether the call raised, and the landmarks dict
\* it leaves.  np.argmin of an empty middle slice raises ValueError; heights[2]
\* of fewer than three sections raises IndexError after the earlier landmarks
\* were stored.
_detect_landmarks(m) ==
    IF DOMAIN m.cross_sections = {} THEN [raised |-> FALSE, landmarks |-> m.landmarks]
    ELSE
    LET cs == m.cross_sections
        heights == sorted_heights(cs)
        n == Cardinality(DOMAIN cs)
        circ_smooth == gaussian_filter1d([i \in 0..(n - 1) |-> cs[heights[i]].circumference], n)
        width_smooth == gaussian_filter1d([i \in 0..(n - 1) |-> cs[heights[i]].width], n)
        middle_start == (3 * n) \div 10
        middle_end == (6 * n) \div 10
    IN IF middle_end <= middle_start THEN [raised |-> TRUE, landmarks |-> m.landmarks]
       ELSE
       LET waist_idx == middle_start + argmin(circ_smooth, middle_start, middle_end)
           with_waist == Put(m.landmarks, "waist", Landmark(0, heights[waist_idx]))
           with_hip ==
               IF waist_idx > 5
               THEN Put(with_waist, "hip", Landmark(0, heights[argmax(circ_smooth, 0, waist_idx)]))
               ELSE with_waist
           above_waist_end == (85 * n) \div 100
           with_bust ==
               IF slice_len(waist_idx, above_waist_end) > 5
               THEN LET bust_height == heights[waist_idx
                                         + argmax(circ_smooth, waist_idx, above_waist_end)]
                        quarter == cs[bust_height].width \div 4
                    IN Put(Put(with_hip, "bust_apex_left", Landmark(0 - quarter, bust_height)),
                           "bust_apex_right", Landmark(quarter, bust_height))
               ELSE with_hip
           upper_start == (75 * n) \div 100
           with_shoulders ==
               IF slice_len(upper_start, n) > 3
               THEN LET shoulder_height == heights[upper_start
                                             + argmax(width_smooth, upper_start, n)]
                        half == cs[shoulder_height].width \div 2
                    IN Put(Put(Put(with_bust,
                           "left_shoulder", Landmark(0 - half, shoulder_height)),
                           "right_shoulder", Landmark(half, shoulder_height)),
                           "shoulder_center", Landmark(0, shoulder_height))
               ELSE with_bust
           with_crotch == detect_crotch(with_shoulders, heights, circ_smooth)
           with_knees == detect_knees(with_crotch, cs, heights)
       IN IF n <= 2 THEN [raised |-> TRUE, landmarks |-> with_knees]
          ELSE LET quarter == cs[heights[2]].width \div 4
                   with_ankles ==
                       Put(Put(with_knees, "left_ankle", Landmark(0 - quarter, heights[2])),
                           "right_ankle", Landmark(quarter, heights[2]))
               IN [raised |-> FALSE,
                   landmarks |-> Put(with_ankles, "top_of_head", Landmark(0, m.max_y))]

\* min(heights, key=lambda h: abs(h - height)): the first closest height.
closest(cross_sections, height) ==
    LET keys == DOMAIN cross_sections
        least == SetMin({Abs(h - height) : h \in keys})
    IN SetMin({h \in keys : Abs(h - height) = least})

\* The rise measured from the waist alone, a missing crotch read as height 0.
rise_from_waist_alone(landmarks, previous) ==
    IF "waist" \in DOMAIN landmarks
    THEN landmarks["waist"].y
           - (IF "crotch" \in DOMAIN landmarks THEN landmarks["crotch"].y ELSE 0)
    ELSE previous

\* _extract_measurements, lines 479-485: the rise is waist to crotch, assigned
\* only when both landmarks are present.
rise(landmarks, previous) ==
    IF "waist" \in DOMAIN landmarks /\ "crotch" \in DOMAIN landmarks
    THEN landmarks["waist"].y - landmarks["crotch"].y
    ELSE previous

\* BodyModel._extract_measurements: the measurements after the call.  A field
\* is assigned only under the presence of the landmarks it reads.
_extract_measurements(m) ==
    LET lm == m.landmarks
        cs == m.cross_sections
        old == m.measurements
        has(name) == name \in DOMAIN lm
        circ_at(height) == cs[closest(cs, height)].circumference
    IN [total_height |-> m.height,
        shoulder_height |-> IF has("shoulder_center") THEN lm["shoulder_center"].y - m.min_y
                            ELSE old.shoulder_height,
        waist_height |-> IF has("waist") THEN lm["waist"].y - m.min_y ELSE old.waist_height,
        hip_height |-> IF has("hip") THEN lm["hip"].y - m.min_y ELSE old.hip_height,
        crotch_height |-> IF has("crotch") THEN lm["crotch"].y - m.min_y ELSE old.crotch_height,
        knee_height |-> old.knee_height,
        ankle_height |-> old.ankle_height,
        waist_circumference |-> IF has("waist") THEN circ_at(lm["waist"].y)
                                ELSE old.waist_circumference,
        waist_width |-> IF has("waist")
                        THEN (IF lm["waist"].y \in DOMAIN cs THEN cs[lm["waist"].y].width ELSE 0)
                        ELSE old.waist_width,
        hip_circumference |-> IF has("hip") THEN circ_at(lm["hip"].y) ELSE old.hip_circumference,
        hip_width |-> IF has("hip") THEN cs[closest(cs, lm["hip"].y)].width ELSE old.hip_width,
        bust_circumference |-> IF has("bust_apex_left") THEN circ_at(lm["bust_apex_left"].y)
                               ELSE old.bust_circumference,
        bust_height |-> IF has("bust_apex_left") THEN lm["bust_apex_left"].y - m.min_y
                        ELSE old.bust_height,
        shoulder_width |-> IF has("left_shoulder") /\ has("right_shoulder")
                           THEN Abs(lm["left_shoulder"].x - lm["right_shoulder"].x)
                           ELSE old.shoulder_width,
        torso_length |-> IF has("shoulder_center") /\ has("waist")
                         THEN lm["shoulder_center"].y - lm["waist"].y
                         ELSE old.torso_length,
        front_rise |-> rise(lm, old.front_rise),
        back_rise |-> rise(lm, old.back_rise),
        inseam |-> IF has("crotch") /\ has("left_ankle")
                   THEN lm["crotch"].y - lm["left_ankle"].y ELSE old.inseam,
        outseam |-> IF has("waist") /\ has("left_ankle")
                    THEN lm["waist"].y - lm["left_ankle"].y ELSE old.outseam,
        thigh_circumference |-> IF has("crotch") THEN circ_at(lm["crotch"].y - 50) \div 2
                                ELSE old.thigh_circumference,
        knee_circumference |-> IF has("left_knee") THEN circ_at(lm["left_knee"].y) \div 2
                               ELSE old.knee_circumference,
        ankle_circumference |-> IF has("left_ankle") THEN circ_at(lm["left_ankle"].y) \div 2
                                ELSE old.ankle_circumference]

\* BodyModel.generate_movement_envelope: the model is only read.  The envelope
\* is kept as its ease map and the ease chosen for the vertices of each ring.
body_movement_envelope(m, ease_profile) ==
    LET ease_map == ease_map_of(ease_profile)
        heights == [name \in DOMAIN m.landmarks |-> m.landmarks[name].y]
    IN [ease_map |-> ease_map,
        ring_ease |-> [k \in DOMAIN m.vertices |->
                         vertex_ease(heights, ease_map, m.vertices[k].y)]]

\* BodyModel.to_dict.
body_to_dict(m) ==
    [landmarks |-> m.landmarks,
     measurements |-> m.measurements,
     cross_sections |-> m.cross_sections,
     bounds |-> [min_y |-> m.min_y, max_y |-> m.max_y, height |-> m.height]]

BetweenCalls == body_model.state \in {"Uninitialized", "MeasurementsExtracted"}

\* analyze(num_sections), line 204.
AnalyzeGenerateCrossSections ==
    /\ mode = "body"
    /\ BetweenCalls
    /\ body_model.analyses < MaxAnalyses
    /\ \E num_sections \in SectionCounts :
          body_model' = [body_model EXCEPT
              !.cross_sections = _generate_cross_sections(body_model, num_sections),
              !.state = "CrossSectioned",
              !.num_sections = num_sections,
              !.analyses = @ + 1]
    /\ UNCHANGED <<mode, fitInputs, fitResult, patternVars, processed, garment_model,
                   unitVars, alignVars, seamVars, entryVars>>

\* analyze, line 205; an exception of _detect_landmarks leaves analyze.
AnalyzeDetectLandmarks ==
    /\ mode = "body"
    /\ body_model.state = "CrossSectioned"
    /\ LET outcome == _detect_landmarks(body_model)
       IN body_model' = [body_model EXCEPT
              !.landmarks = outcome.landmarks,
              !.state = IF outcome.raised THEN "Raised" ELSE "LandmarksDetected"]
    /\ UNCHANGED <<mode, fitInputs, fitResult, patternVars, processed, garment_model,
                   unitVars, alignVars, seamVars, entryVars>>

\* analyze, lines 206-207.
AnalyzeExtractMeasurements ==
    /\ mode = "body"
    /\ body_model.state = "LandmarksDetected"
    /\ body_model' = [body_model EXCEPT
          !.measurements = _extract_measurements(body_model),
          !.state = "MeasurementsExtracted"]
    /\ UNCHANGED <<mode, fitInputs, fitResult, patternVars, processed, garment_model,
                   unitVars, alignVars, seamVars, entryVars>>

BodyGenerateMovementEnvelope ==
    /\ mode = "body"
    /\ BetweenCalls
    /\ \E ease_profile \in {"default", "wild"} :
          body_model' = [body_model EXCEPT
              !.returned = body_movement_envelope(body_model, ease_profile)]
    /\ UNCHANGED <<mode, fitInputs, fitResult, patternVars, processed, garment_model,
                   unitVars, alignVars, seamVars, entryVars>>

BodyToDict ==
    /\ mode = "body"
    /\ BetweenCalls
    /\ body_model' = [body_model EXCEPT !.returned = body_to_dict(body_model)]
    /\ UNCHANGED <<mode, fitInputs, fitResult, patternVars, processed, garment_model,
                   unitVars, alignVars, seamVars, entryVars>>

\* Body scans: dense rings of 12 vertices at the 26 heights 1 + 72 i wherever
\* the profile has a radius, and the four vertices of the soles and of the
\* crown.  Radii are multiples of four, so that width / 4 is whole.
ScanOf(profile) ==
    <<Ring(0, 12, 4)>>
      \o SelectSeq([i \in 1..26 |-> Ring(1 + 72 * (i - 1), profile[i], 12)],
                   LAMBDA ring : ring.r > 0)
      \o <<Ring(BodyHeight, 12, 4)>>

FigureProfile ==
    [i \in 1..26 |-> IF i <= 5 THEN 100 ELSE IF i <= 9 THEN 200 ELSE IF i <= 16 THEN 300
                     ELSE IF i <= 21 THEN 12 ELSE IF i <= 23 THEN 100 ELSE 300]
ColumnProfile == [i \in 1..26 |-> 100]
OneRingProfile == [i \in 1..26 |-> IF i = 13 THEN 100 ELSE 0]
TwoRingProfile == [i \in 1..26 |-> IF i = 6 THEN 100 ELSE IF i = 17 THEN 200 ELSE 0]
EightRingProfile == [i \in 1..26 |-> IF i % 3 = 1 /\ i <= 24 THEN 100 ELSE 0]
BareProfile == [i \in 1..26 |-> 0]
\* Thighs, a one-band notch, a broad block of five bands and a thin column.
BlockProfile ==
    [i \in 1..26 |-> IF i = 1 THEN 0 ELSE IF i <= 9 THEN 100 ELSE IF i = 10 THEN 12
                     ELSE IF i <= 15 THEN 300 ELSE 12]

BodyScans ==
    {ScanOf(profile) : profile \in {FigureProfile, ColumnProfile, OneRingProfile,
                                    TwoRingProfile, EightRingProfile, BareProfile,
                                    BlockProfile}}

InitBody ==
    /\ mode = "body"
    /\ body = None
    /\ garment = None
    /\ movement_envelope = None
    /\ FitNotRun
    /\ PatternIdle
    /\ processed = None
    /\ garment_model = None
    /\ UnitsIdle /\ AlignIdle /\ SeamsIdle /\ EntryIdle
    /\ \E rings \in BodyScans : body_model = NewBodyModel(rings)

NextBody ==
    \/ AnalyzeGenerateCrossSections
    \/ AnalyzeDetectLandmarks
    \/ AnalyzeExtractMeasurements
    \/ BodyGenerateMovementEnvelope
    \/ BodyToDict

SpecBody == InitBody /\ [][NextBody]_vars

\* C14: a BodyModel moves Uninitialized -> CrossSectioned -> LandmarksDetected
\* -> MeasurementsExtracted: landmarks are written only after cross-sections
\* were generated, measurements only after landmark detection, and once the
\* first run has extracted its measurements no public call (analyze,
\* generate_movement_envelope, to_dict) changes landmarks or measurements.
FirstRunDone ==
    \/ body_model.analyses >= 2
    \/ body_model.analyses = 1 /\ body_model.state = "MeasurementsExtracted"

C14_AnalysisOrderedAndTerminal ==
    [][mode = "body" =>
        /\ body_model'.landmarks # body_model.landmarks
              => body_model.state = "CrossSectioned"
        /\ body_model'.measurements # body_model.measurements
              => body_model.state = "LandmarksDetected"
        /\ FirstRunDone
              => /\ body_model'.landmarks = body_model.landmarks
                 /\ body_model'.measurements = body_model.measurements]_vars

\* What holds of the order alone: landmarks are written only by the step that
\* follows cross-sectioning, measurements only by the step that follows
\* landmark detection.
AnalysisOrdered ==
    [][mode = "body" =>
        /\ body_model'.landmarks # body_model.landmarks
              => body_model.state = "CrossSectioned"
        /\ body_model'.measurements # body_model.measurements
              => body_model.state = "LandmarksDetected"]_vars

Found(name) == name \in DOMAIN body_model.landmarks

\* C15: in every landmark set of a body analysis CROTCH is present only if
\* HIP is, and a knee only if CROTCH is; a measurement derived from a missing
\* landmark keeps its default 0.
C15_DependentLandmarksSkipped ==
    mode = "body" =>
        LET ms == body_model.measurements
        IN /\ Found("crotch") => Found("hip")
           /\ (Found("left_knee") \/ Found("right_knee")) => Found("crotch")
           /\ ~Found("crotch") =>
                 /\ ms.crotch_height = 0 /\ ms.front_rise = 0 /\ ms.back_rise = 0
                 /\ ms.inseam = 0 /\ ms.thigh_circumference = 0
           /\ ~Found("hip") =>
                 ms.hip_height = 0 /\ ms.hip_circumference = 0 /\ ms.hip_width = 0
           /\ ~Found("left_knee") => ms.knee_circumference = 0
           /\ ~Found("waist") =>
                 /\ ms.waist_height = 0 /\ ms.waist_circumference = 0 /\ ms.waist_width = 0
                 /\ ms.torso_length = 0 /\ ms.outseam = 0 /\ ms.front_rise = 0
           /\ ~Found("shoulder_center") =>
                 ms.shoulder_height = 0 /\ ms.shoulder_width = 0 /\ ms.torso_length = 0
           /\ ~Found("bust_apex_left") => ms.bust_height = 0 /\ ms.bust_circumference = 0
           /\ ~Found("left_ankle") =>
                 ms.ankle_circumference = 0 /\ ms.inseam = 0 /\ ms.outseam = 0

\* An analysis that found the waist and the hip but no crotch has extracted
\* its measurements.
C15_Witness ==
    /\ mode = "body"
    /\ body_model.state = "MeasurementsExtracted"
    /\ Found("waist") /\ Found("hip") /\ ~Found("crotch")
    /\ body_model.measurements.waist_height > 0
    /\ body_model.measurements.front_rise = 0

\* An analysis that found the whole chain hip, crotch, knees.
KneesFound ==
    /\ mode = "body"
    /\ body_model.state = "MeasurementsExtracted"
    /\ Found("hip") /\ Found("crotch") /\ Found("left_knee") /\ Found("right_knee")
    /\ body_model.measurements.inseam > 0

(***************************************************************************)
(* garment_model.py: GarmentModel._extract_measurements, the step of       *)
(* GarmentModel.analyze that reads the circumference signal.  The model    *)
(* starts from the circumferences dict the slicing loop of lines 425-440   *)
(* leaves: heights and circs are indexed from 0, in ascending height.      *)
(***************************************************************************)
MaxSections == 5        \* most usable cross-sections of a garment

DefaultGarmentMeasurements ==
    [waist_circumference |-> 0, hip_circumference |-> 0, thigh_circumference |-> 0,
     knee_circumference |-> 0, ankle_circumference |-> 0, inseam_length |-> 0,
     outseam_length |-> 0, front_rise |-> 0, back_rise |-> 0,
     chest_circumference |-> 0, body_length |-> 0, total_height |-> 0]

\* GarmentModel.__init__ and the garment type analyze sets; the usable
\* sections are the lowest of the 50 slices, 20 mm apart.
NewGarmentModel(garment_type, circs) ==
    [garment_type |-> garment_type,
     min_y |-> 0,
     height |-> 49 * 20,
     heights |-> [i \in 0..(Len(circs) - 1) |-> 20 * i],
     circs |-> [i \in 0..(Len(circs) - 1) |-> circs[i + 1]],
     measurements |-> DefaultGarmentMeasurements,
     state |-> "Created"]

\* np.where(circ_diff < -circ_diff.std() * 2)[0]: d < -2 sigma exactly when
\* d < 0 and m^2 d^2 > 4 (m sum(d^2) - sum(d)^2), m the number of differences.
split_candidates(circs, k) ==
    LET circ_diff == [i \in 0..(k - 2) |-> circs[i + 1] - circs[i]]
        m == k - 1
        total == SumSeq([i \in 1..m |-> circ_diff[i - 1]])
        squares == SumSeq([i \in 1..m |-> circ_diff[i - 1] * circ_diff[i - 1]])
    IN {i \in 0..(k - 2) :
          /\ circ_diff[i] < 0
          /\ m * m * circ_diff[i] * circ_diff[i] > 4 * (m * squares - total * total)}

\* The pants branch, lines 452-497.  circs[-3] and circs[3] raise IndexError
\* on a short signal; without a split candidate crotch_height is never bound
\* and the knee line raises UnboundLocalError.
extract_pants(g, k, started) ==
    IF k < 3 THEN [raised |-> TRUE, measurements |-> started]
    ELSE
    LET with_hip == [started EXCEPT
            !.waist_circumference = g.circs[k - 3],
            !.hip_circumference = g.circs[(k \div 2) + argmax(g.circs, k \div 2, k)]]
        candidates == split_candidates(g.circs, k)
    IN IF candidates = {} THEN [raised |-> TRUE, measurements |-> with_hip]
       ELSE
       LET crotch_height == g.heights[SetMax(candidates)]
           waist_height == g.heights[k - 3]
           hem_height == g.heights[2]
           thigh_idx == searchsorted(g.heights, crotch_height - 50, 1)
           knee_idx == searchsorted(g.heights, g.min_y + crotch_height, 2)
           with_rise == [with_hip EXCEPT
               !.front_rise = waist_height - crotch_height,
               !.back_rise = waist_height - crotch_height,
               !.inseam_length = crotch_height - hem_height,
               !.outseam_length = waist_height - hem_height,
               !.thigh_circumference =
                   IF 0 < thigh_idx /\ thigh_idx < k THEN g.circs[thigh_idx] \div 2 ELSE @]
           with_knee == [with_rise EXCEPT
               !.knee_circumference =
                   IF 0 < knee_idx /\ knee_idx < k THEN g.circs[knee_idx] \div 2 ELSE @]
       IN IF k < 4 THEN [raised |-> TRUE, measurements |-> with_knee]
          ELSE [raised |-> FALSE,
                measurements |-> [with_knee EXCEPT
                    !.ankle_circumference = g.circs[3] \div 2]]

\* The shirt and dress branch, lines 499-511; np.argmin of an empty middle
\* third raises ValueError.
extract_shirt(g, k, started) ==
    LET with_chest == [started EXCEPT
            !.chest_circumference = SetMax({g.circs[i] : i \in 0..(k - 1)})]
        mid_start == k \div 3
        mid_end == (2 * k) \div 3
    IN IF mid_end <= mid_start THEN [raised |-> TRUE, measurements |-> with_chest]
       ELSE [raised |-> FALSE,
             measurements |-> [with_chest EXCEPT
                 !.waist_circumference =
                     g.circs[mid_start + argmin(g.circs, mid_start, mid_end)],
                 !.body_length = g.height]]

\* GarmentModel._extract_measurements from line 442 on: whether it raised and
\* the measurements it leaves.
garment_extract_measurements(g) ==
    LET k == Cardinality(DOMAIN g.circs)
        started == [g.measurements EXCEPT !.total_height = g.height]
    IN IF k = 0 THEN [raised |-> FALSE, measurements |-> g.measurements]
       ELSE IF g.garment_type = "pants" THEN extract_pants(g, k, started)
       ELSE IF g.garment_type \in {"shirt", "dress"} THEN extract_shirt(g, k, started)
       ELSE [raised |-> FALSE, measurements |-> started]

GarmentExtractMeasurements ==
    /\ mode = "garment"
    /\ garment_model.state = "Created"
    /\ LET outcome == garment_extract_measurements(garment_model)
       IN garment_model' = [garment_model EXCEPT
              !.measurements = outcome.measurements,
              !.state = IF outcome.raised THEN "Raised" ELSE "MeasurementsExtracted"]
    /\ UNCHANGED <<mode, fitInputs, fitResult, patternVars, processed, body_model,
                   unitVars, alignVars, seamVars, entryVars>>

Circumferences == {300, 600, 1000}

InitGarment ==
    /\ mode = "garment"
    /\ body = None
    /\ garment = None
    /\ movement_envelope = None
    /\ FitNotRun
    /\ PatternIdle
    /\ processed = None
    /\ body_model = None
    /\ UnitsIdle /\ AlignIdle /\ SeamsIdle /\ EntryIdle
    /\ \E garment_type \in {"pants", "shirt", "unknown"},
          circs \in SeqsUpTo(Circumferences, MaxSections) :
          garment_model = NewGarmentModel(garment_type, circs)

InitAnalysis == InitBody \/ InitGarment

NextAnalysis == NextBody \/ GarmentExtractMeasurements

SpecAnalysis == InitAnalysis /\ [][NextAnalysis]_vars

\* C16: degenerate meshes are never fatal: BodyModel.analyze and
\* GarmentModel.analyze return normally with a partial result, also for a
\* body of one or two usable cross-sections, for pants without a leg-split
\* drop in their circumference signal and for pants of fewer than four usable
\* cross-sections.
C16_DegenerateMeshNeverFatal ==
    /\ mode = "body" => body_model.state # "Raised"
    /\ mode = "garment" => garment_model.state # "Raised"

\* Pants whose signal has a leg-split drop and four sections or more do
\* return, with a rise and an inseam.
PantsMeasured ==
    /\ mode = "garment"
    /\ garment_model.garment_type = "pants"
    /\ garment_model.state = "MeasurementsExtracted"
    /\ garment_model.measurements.ankle_circumference > 0

(***************************************************************************)
(* mesh_processing.py: MeshProcessor.orient_garment, and both orientation  *)
(* routines on degenerate meshes.                                          *)
(***************************************************************************)
\* orient_garment centres and rotates as orient_body does and never flips.
orient_garment(p) ==
    LET n == Len(p.vertices)
        centred == centre_on_mean(p.vertices)
        log1 == Append(p.processing_log, "Centered garment at origin")
        log2 == Append(log1, "Aligned garment principal axis with Y")
    IN IF n < 2
       THEN {[raised |-> TRUE,
              processed |-> ProcessedMesh(p.vertices, p.denominator, p.is_nan,
                                          p.mesh_type, log1)],
             [raised |-> FALSE,
              processed |-> ProcessedMesh(centred, p.denominator * n, TRUE, "garment", log2)]}
       ELSE {[raised |-> FALSE,
              processed |-> ProcessedMesh(rotate(centred, rotation),
                                          p.denominator * n * RotationScale, FALSE,
                                          "garment", log2)] :
               rotation \in EigenBases(scatter(centred))}

OrientGarment ==
    /\ mode = "orient_garment"
    /\ \E outcome \in orient_garment(processed) :
          /\ processed' = outcome.processed
          /\ mode' = IF outcome.raised THEN "orient_garment_raised"
                     ELSE "orient_garment_done"
    /\ UNCHANGED <<fitInputs, fitResult, patternVars, analysisVars>>

\* Four vertices of a regular tetrahedron: their covariance is a multiple of
\* the identity, as that of a spherical point cloud.
SphericalMesh == <<<<1, 1, 1>>, <<1, -1, -1>>, <<-1, 1, -1>>, <<-1, -1, 1>>>>

InitOrientAny ==
    /\ mode \in {"orient", "orient_garment"}
    /\ body = None
    /\ garment = None
    /\ movement_envelope = None
    /\ FitNotRun
    /\ PatternIdle
    /\ AnalysisIdle
    /\ \E vs \in InputMeshes \cup {SphericalMesh} :
          processed = ProcessedMesh(vs, 1, FALSE, "unknown", <<>>)

NextOrientAny == OrientBody \/ OrientGarment

SpecOrientAny == InitOrientAny /\ [][NextOrientAny]_vars

\* The principal axes of vs are not determined: fewer than two vertices, or
\* two equal eigenvalues of the covariance.
DegeneratePCA(vs) ==
    \/ Len(vs) < 2
    \/ LET m == scatter(centre_on_mean(vs))
       IN \E basis \in EigenBases(m) :
             \/ quadratic_form(m, basis[1]) = quadratic_form(m, basis[2])
             \/ quadratic_form(m, basis[2]) = quadratic_form(m, basis[3])

\* The mesh after the call holds the centred vertices of the mesh before it,
\* unrotated.
IdentityOrientation(before, after) ==
    /\ ~after.is_nan
    /\ LET centred == centre_on_mean(before.vertices)
           factor == after.denominator \div (before.denominator * Len(before.vertices))
       IN after.vertices = [k \in 1..Len(centred) |-> Scaled(factor, centred[k])]

\* C17: when the principal-axis computation is degenerate (equal eigenvalues
\* of the vertex covariance, or too few vertices for a covariance),
\* orient_body and orient_garment raise no error and leave the centred input
\* vertices, with no rotation applied.
C17_DegenerateFallsBackToIdentity ==
    [][(mode \in {"orient", "orient_garment"} /\ DegeneratePCA(processed.vertices))
          => /\ mode' \in {"orient_done", "orient_garment_done"}
             /\ IdentityOrientation(processed, processed')]_vars

\* A garment of two vertices on the Z axis has been oriented: its principal
\* axis now lies along X.
GarmentTurnedOntoX ==
    /\ mode = "orient_garment_done"
    /\ Len(processed.vertices) = 2
    /\ processed.vertices[1][1] # 0
    /\ processed.vertices[1][3] = 0

(***************************************************************************)
(* mesh_processing.py: MeshProcessor._detect_units.  The dimensions of the *)
(* bounding box are integers over a denominator.                           *)
(***************************************************************************)
MeshUnit == {"mm", "cm", "m", "in"}

Dimensions(values, denominator) == [values |-> values, denominator |-> denominator]

\* Every threshold met from the wrong side.
detect_units_inclusive(d) ==
    LET max_dim == SetMax(Range(d.values))
    IN IF max_dim >= 500 * d.denominator THEN "mm"
       ELSE IF max_dim >= 50 * d.denominator THEN "cm"
       ELSE IF 2 * max_dim >= d.denominator THEN "m"
       ELSE "mm"

_detect_units(d) ==
    LET max_dim == SetMax(Range(d.values))
    IN IF max_dim > 500 * d.denominator THEN "mm"
       ELSE IF max_dim > 50 * d.denominator THEN "cm"
       ELSE IF 2 * max_dim > d.denominator THEN "m"
       ELSE "mm"

DetectUnits ==
    /\ mode = "units"
    /\ unit' = _detect_units(dimensions)
    /\ mode' = "units_detected"
    /\ UNCHANGED <<fitInputs, fitResult, patternVars, processed, body_model, garment_model,
                   dimensions, alignVars, seamVars, entryVars>>

\* Extents in tenths of a unit, on and around every threshold.
Tenths == {0, 4, 5, 6, 499, 500, 501, 4999, 5000, 5001, 17000}

InitUnits ==
    /\ mode = "units"
    /\ body = None
    /\ garment = None
    /\ movement_envelope = None
    /\ FitNotRun
    /\ PatternIdle
    /\ processed = None
    /\ body_model = None
    /\ garment_model = None
    /\ AlignIdle /\ SeamsIdle /\ EntryIdle
    /\ unit = None
    /\ \E values \in [1..3 -> Tenths] : dimensions = Dimensions(values, 10)

NextUnits == DetectUnits

SpecUnits == InitUnits /\ [][NextUnits]_vars

\* The extent e = numerator / denominator compared with a whole bound.
ExtentAbove(bound_times_2) ==
    2 * SetMax(Range(dimensions.values)) > bound_times_2 * dimensions.denominator

\* C18: unit detection maps the extent e of the mesh with strict thresholds:
\* e > 500 gives millimeters, 50 < e <= 500 centimeters, 0.5 < e <= 50
\* meters, e <= 0.5 millimeters; every extent gets exactly one unit and
\* inches is never detected.
C18_DetectUnitsThresholds ==
    mode = "units_detected" =>
        /\ unit \in MeshUnit \ {"in"}
        /\ ExtentAbove(1000) => unit = "mm"
        /\ (ExtentAbove(100) /\ ~ExtentAbove(1000)) => unit = "cm"
        /\ (ExtentAbove(1) /\ ~ExtentAbove(100)) => unit = "m"
        /\ ~ExtentAbove(1) => unit = "mm"

\* A mesh of extent exactly 500 was detected as centimeters.
C18_Witness ==
    /\ mode = "units_detected"
    /\ SetMax(Range(dimensions.values)) = 500 * dimensions.denominator
    /\ unit = "cm"

(***************************************************************************)
(* mesh_processing.py: load_mesh, convert_units and align_meshes.  The     *)
(* vertices and the stats.center of a mesh are integers over the mesh's    *)
(* denominator, kept in lowest terms.                                      *)
(***************************************************************************)
MaxSteps == 2           \* most orient or convert calls on one mesh before alignment

RECURSIVE GcdAbs(_, _)
GcdAbs(a, b) == IF b = 0 THEN Abs(a) ELSE GcdAbs(Abs(b), Abs(a) % Abs(b))

RECURSIVE GCDOfVectors(_, _)
GCDOfVectors(vs, g) ==
    IF vs = <<>> THEN g
    ELSE GCDOfVectors(Tail(vs),
                      GcdAbs(GcdAbs(GcdAbs(g, Head(vs)[1]), Head(vs)[2]), Head(vs)[3]))

\* A ProcessedMesh with the fields of its stats that alignment reads.  A
\* coordinate is its integer times factor / denominator, the integers of a
\* mesh without a common divisor; steps counts the orient and convert calls
\* made on the mesh.
StatsMesh(vertices, factor, denominator, center, mesh_unit, mesh_type, steps) ==
    LET common == GCDOfVectors(Append(vertices, center), 0)
        g == IF common = 0 THEN 1 ELSE common
        h == GcdAbs(factor * g, denominator)
    IN [vertices |-> [k \in 1..Len(vertices) |->
                        [i \in 1..3 |-> vertices[k][i] \div g]],
        factor |-> (factor * g) \div h,
        denominator |-> denominator \div h,
        center |-> [i \in 1..3 |-> center[i] \div g],
        unit |-> mesh_unit,
        mesh_type |-> mesh_type,
        steps |-> steps]

bbox_min(vs) == [i \in 1..3 |-> SetMin({vs[k][i] : k \in 1..Len(vs)})]
bbox_max(vs) == [i \in 1..3 |-> SetMax({vs[k][i] : k \in 1..Len(vs)})]

\* load_mesh, lines 160-175: stats.center is the centre of the bounding box
\* and the unit is detected from the dimensions.
load_mesh(file_vertices) ==
    StatsMesh([k \in 1..Len(file_vertices) |-> Scaled(2, file_vertices[k])], 1, 2,
              Plus(bbox_min(file_vertices), bbox_max(file_vertices)),
              _detect_units(Dimensions(Sub(bbox_max(file_vertices),
                                           bbox_min(file_vertices)), 1)),
              "unknown", 0)

to_mm(mesh_unit) ==
    IF mesh_unit = "mm" THEN 1 ELSE IF mesh_unit = "cm" THEN 10 ELSE 1000

\* convert_units: nothing happens at scale 1; otherwise the vertices are
\* scaled and stats.center becomes their mean.
convert_units(p, target_unit) ==
    IF to_mm(p.unit) = to_mm(target_unit) THEN p
    ELSE LET n == Len(p.vertices)
         IN StatsMesh([k \in 1..n |-> Scaled(n, p.vertices[k])],
                      p.factor * to_mm(p.unit),
                      p.denominator * to_mm(target_unit) * n,
                      SumVectors(p.vertices), target_unit, p.mesh_type, p.steps)

\* The stats orient_body and orient_garment leave: stats.center is the mean
\* of the rotated vertices.
oriented_stats(p, outcome) ==
    LET n == Len(outcome.vertices)
    IN StatsMesh([k \in 1..n |-> Scaled(n, outcome.vertices[k])],
                 p.factor, outcome.denominator * n, SumVectors(outcome.vertices),
                 p.unit, outcome.mesh_type, p.steps)

\* align_meshes: the pair it returns.
align_meshes(b, g) ==
    LET converted == IF b.unit # g.unit THEN convert_units(g, b.unit) ELSE g
        n == Len(converted.vertices)
        own == converted.factor * b.denominator
        \* offset = body_center - garment_center, over both denominators
        offset == Sub(Scaled(b.factor * converted.denominator, b.center),
                      Scaled(own, converted.center))
        moved == [k \in 1..n |-> Plus(Scaled(own, converted.vertices[k]), offset)]
    IN [body |-> b,
        garment |-> StatsMesh([k \in 1..n |-> Scaled(n, moved[k])], 1,
                              converted.denominator * b.denominator * n,
                              SumVectors(moved), converted.unit,
                              converted.mesh_type, converted.steps)]

Stepped(p) == [p EXCEPT !.steps = @ + 1]

ConvertBodyUnits ==
    /\ mode = "ingest"
    /\ body_mesh.steps < MaxSteps
    /\ \E target_unit \in MeshUnit \ {"in"} :
          body_mesh' = Stepped(convert_units(body_mesh, target_unit))
    /\ UNCHANGED <<mode, fitInputs, fitResult, patternVars, processed, body_model,
                   garment_model, unitVars, garment_mesh, seamVars, entryVars>>

ConvertGarmentUnits ==
    /\ mode = "ingest"
    /\ garment_mesh.steps < MaxSteps
    /\ \E target_unit \in MeshUnit \ {"in"} :
          garment_mesh' = Stepped(convert_units(garment_mesh, target_unit))
    /\ UNCHANGED <<mode, fitInputs, fitResult, patternVars, processed, body_model,
                   garment_model, unitVars, body_mesh, seamVars, entryVars>>

AsProcessed(p) == ProcessedMesh(p.vertices, p.denominator, FALSE, p.mesh_type, <<>>)

OrientBodyMesh ==
    /\ mode = "ingest"
    /\ body_mesh.steps < MaxSteps
    /\ \E outcome \in orient_body(AsProcessed(body_mesh)) :
          body_mesh' = Stepped(oriented_stats(body_mesh, outcome.processed))
    /\ UNCHANGED <<mode, fitInputs, fitResult, patternVars, processed, body_model,
                   garment_model, unitVars, garment_mesh, seamVars, entryVars>>

OrientGarmentMesh ==
    /\ mode = "ingest"
    /\ garment_mesh.steps < MaxSteps
    /\ \E outcome \in orient_garment(AsProcessed(garment_mesh)) :
          garment_mesh' = Stepped(oriented_stats(garment_mesh, outcome.processed))
    /\ UNCHANGED <<mode, fitInputs, fitResult, patternVars, processed, body_model,
                   garment_model, unitVars, body_mesh, seamVars, entryVars>>

AlignMeshes ==
    /\ mode = "ingest"
    /\ LET aligned == align_meshes(body_mesh, garment_mesh)
       IN /\ body_mesh' = aligned.body
          /\ garment_mesh' = aligned.garment
    /\ mode' = "aligned"
    /\ UNCHANGED <<fitInputs, fitResult, patternVars, processed, body_model,
                   garment_model, unitVars, seamVars, entryVars>>

\* Scan files: three vertices on a line or in a triangle, in file units, at
\* the scale of a file written in meters, centimeters or millimeters.
LineShape == <<<<0, 0, 0>>, <<0, 1, 0>>, <<0, 3, 0>>>>
TriangleShape == <<<<-1, 0, 0>>, <<1, 0, 0>>, <<0, 3, 0>>>>
EvenShape == <<<<0, 0, 0>>, <<0, 1, 0>>, <<0, 2, 0>>>>

FileOf(shape, scale) == [k \in 1..Len(shape) |-> Scaled(scale, shape[k])]

BodyFiles == {FileOf(shape, scale) : shape \in {LineShape, EvenShape}, scale \in {1, 1000}}
GarmentFiles == {FileOf(shape, scale) : shape \in {TriangleShape, EvenShape},
                                        scale \in {100, 1000}}

InitAlign ==
    /\ mode = "ingest"
    /\ body = None
    /\ garment = None
    /\ movement_envelope = None
    /\ FitNotRun
    /\ PatternIdle
    /\ processed = None
    /\ body_model = None
    /\ garment_model = None
    /\ UnitsIdle /\ SeamsIdle /\ EntryIdle
    /\ \E body_file \in BodyFiles, garment_file \in GarmentFiles :
          /\ body_mesh = load_mesh(body_file)
          /\ garment_mesh = load_mesh(garment_file)

NextAlign ==
    \/ ConvertBodyUnits
    \/ ConvertGarmentUnits
    \/ OrientBodyMesh
    \/ OrientGarmentMesh
    \/ AlignMeshes

SpecAlign == InitAlign /\ [][NextAlign]_vars

\* The mean vertex positions of the two meshes coincide.
CentroidsCoincide ==
    Scaled(body_mesh.factor * garment_mesh.denominator * Len(garment_mesh.vertices),
           SumVectors(body_mesh.vertices))
      = Scaled(garment_mesh.factor * body_mesh.denominator * Len(body_mesh.vertices),
               SumVectors(garment_mesh.vertices))

\* C19: for any body and garment mesh of the ingestor (loaded, then oriented
\* or unit-converted in any order) align_meshes leaves the body's vertices
\* unchanged and returns a garment whose mean vertex position equals the
\* body's, with both meshes in the same unit.
C19_AlignedOnVertexCentroid ==
    [][(mode = "ingest" /\ mode' = "aligned")
          => /\ body_mesh'.vertices = body_mesh.vertices
             /\ body_mesh'.factor = body_mesh.factor
             /\ body_mesh'.denominator = body_mesh.denominator
             /\ body_mesh'.unit = garment_mesh'.unit
             /\ CentroidsCoincide']_vars

\* What holds as it stands: the body is left alone and the units agree.
AlignedBodyUntouchedSameUnit ==
    [][(mode = "ingest" /\ mode' = "aligned")
          => /\ body_mesh'.vertices = body_mesh.vertices
             /\ body_mesh'.factor = body_mesh.factor
             /\ body_mesh'.denominator = body_mesh.denominator
             /\ body_mesh'.unit = garment_mesh'.unit]_vars

\* Two meshes whose stats.center is the vertex mean (both last oriented)
\* were aligned, and their centroids coincide.
AlignedAfterOrienting ==
    /\ mode = "aligned"
    /\ body_mesh.mesh_type = "body"
    /\ garment_mesh.mesh_type = "garment"
    /\ CentroidsCoincide

(***************************************************************************)
(* garment_model.py: GarmentModel._chain_edges_to_seams.  An edge is a     *)
(* pair of vertex indices, smaller first; the candidate edges arrive as    *)
(* the sequence in which the set `edges` iterates.  A chain is kept as its *)
(* vertex indices and the edges it consumed.                               *)
(***************************************************************************)
MaxSeamEdges == 6       \* most candidate edges handed to _chain_edges_to_seams

\* vertex_to_edges[v]: the edges at v, in iteration order.
vertex_to_edges(edges, v) == SelectSeq(edges, LAMBDA e : e[1] = v \/ e[2] = v)

\* The while loop of lines 320-339: the walk from current_vertex along the
\* first unused edge, appending in direction 0 and inserting at the front in
\* direction -1.
RECURSIVE extend_chain(_, _, _, _, _)
extend_chain(edges, used_edges, chain, current_vertex, direction) ==
    LET connected == SelectSeq(vertex_to_edges(edges, current_vertex),
                               LAMBDA e : e \notin used_edges)
    IN IF connected = <<>> THEN [used_edges |-> used_edges, chain |-> chain]
       ELSE LET next_edge == connected[1]
                next_vertex == IF next_edge[2] = current_vertex THEN next_edge[1]
                               ELSE next_edge[2]
            IN extend_chain(edges, used_edges \cup {next_edge},
                            [vertices |-> IF direction = 0
                                          THEN Append(chain.vertices, next_vertex)
                                          ELSE <<next_vertex>> \o chain.vertices,
                             edges |-> Append(chain.edges, next_edge)],
                            next_vertex, direction)

\* Lines 312-339: the chain started at start_edge, extended from
\* chain_vertices[0] and then from chain_vertices[-1].
chain_from(edges, used_edges, start_edge) ==
    LET started == [vertices |-> start_edge, edges |-> <<start_edge>>]
        forward == extend_chain(edges, used_edges \cup {start_edge}, started,
                                started.vertices[1], 0)
    IN extend_chain(edges, forward.used_edges, forward.chain,
                    forward.chain.vertices[Len(forward.chain.vertices)], 0 - 1)

\* The for loop of lines 308-356 from the i-th edge on: every chain built.
RECURSIVE chains_from(_, _, _)
chains_from(edges, i, used_edges) ==
    IF i > Len(edges) THEN <<>>
    ELSE IF edges[i] \in used_edges THEN chains_from(edges, i + 1, used_edges)
    ELSE LET built == chain_from(edges, used_edges, edges[i])
         IN <<built.chain>> \o chains_from(edges, i + 1, built.used_edges)

_chain_edges_to_seams(edges) == chains_from(edges, 1, {})

\* The chains that become seams: more than three vertices (line 341).
seams == SelectSeq(chains, LAMBDA chain : Len(chain.vertices) > 3)

ChainEdgesToSeams ==
    /\ mode = "seams"
    /\ chains' = _chain_edges_to_seams(seam_edges)
    /\ mode' = "seams_chained"
    /\ UNCHANGED <<fitInputs, fitResult, patternVars, processed, body_model,
                   garment_model, unitVars, alignVars, seam_edges, entryVars>>

\* Candidate edges: a path of seven vertices with a branch at its middle.
CandidateEdges == {<<1, 2>>, <<2, 3>>, <<3, 4>>, <<4, 5>>, <<5, 6>>, <<6, 7>>, <<4, 8>>}

\* Every iteration order of every set of at most MaxSeamEdges candidates.
EdgeOrders ==
    {order \in UNION {[1..k -> CandidateEdges] : k \in 1..MaxSeamEdges} :
        \A i, j \in 1..Len(order) : i # j => order[i] # order[j]}

InitSeams ==
    /\ mode = "seams"
    /\ body = None
    /\ garment = None
    /\ movement_envelope = None
    /\ FitNotRun
    /\ PatternIdle
    /\ processed = None
    /\ body_model = None
    /\ garment_model = None
    /\ UnitsIdle /\ AlignIdle /\ EntryIdle
    /\ chains = <<>>
    /\ seam_edges \in EdgeOrders

NextSeams == ChainEdgesToSeams

SpecSeams == InitSeams /\ [][NextSeams]_vars

\* No candidate edge was consumed twice, within a chain or by two chains.
EdgesConsumedOnce ==
    \A e \in Range(seam_edges) :
        Cardinality({<<c, k>> \in (1..Len(chains)) \X (1..MaxSeamEdges + 1) :
                        k <= Len(chains[c].edges) /\ chains[c].edges[k] = e}) <= 1

\* C20: the seams _chain_edges_to_seams returns never share a mesh vertex,
\* also when candidate edges meet at a vertex of degree three or more, and
\* no candidate edge is consumed by more than one chain.
C20_SeamsShareNoVertex ==
    mode = "seams_chained" =>
        /\ \A s, t \in 1..Len(seams) :
              s # t => Range(seams[s].vertices) \cap Range(seams[t].vertices) = {}
        /\ EdgesConsumedOnce

\* What holds as it stands: every candidate edge is consumed exactly once.
EveryEdgeConsumedOnce ==
    mode = "seams_chained" =>
        /\ EdgesConsumedOnce
        /\ \A e \in Range(seam_edges) : \E c \in 1..Len(chains) : e \in Range(chains[c].edges)

\* Two seams were returned for a plain path of six edges.
TwoSeamsOnAPath ==
    /\ mode = "seams_chained"
    /\ <<4, 8>> \notin Range(seam_edges)
    /\ Len(seams) = 2

\* The vertices at positions k and k+1 of a chain are the two ends of an
\* edge that chain consumed.
JoinedByConsumedEdge(chain, k) ==
    \E e \in Range(chain.edges) :
        {e[1], e[2]} = {chain.vertices[k], chain.vertices[k + 1]}

\* C21: every seam's vertex sequence is an ordered chain: each pair of
\* consecutive vertices is joined by a candidate edge consumed by that
\* chain, so an open path of candidate edges comes out in path order.
C21_SeamIsOrderedChain ==
    mode = "seams_chained" =>
        \A s \in 1..Len(seams) :
            \A k \in 1..(Len(seams[s].vertices) - 1) : JoinedByConsumedEdge(seams[s], k)

\* What holds as it stands: a chain lists one vertex more than the edges it
\* consumed, and every vertex it lists is an end of one of them.
ChainListsItsEdgeEnds ==
    mode = "seams_chained" =>
        \A c \in 1..Len(chains) :
            /\ Len(chains[c].vertices) = Len(chains[c].edges) + 1
            /\ \A v \in Range(chains[c].vertices) :
                  \E e \in Range(chains[c].edges) : v \in {e[1], e[2]}

\* A seam came out of an open path started at an inner edge.
SeamFromInnerEdge ==
    /\ mode = "seams_chained"
    /\ seam_edges = <<(<<3, 4>>), (<<2, 3>>), (<<1, 2>>), (<<4, 5>>)>>
    /\ Len(seams) = 1

\* The landmarks were detected on the cross-sections the model now holds.
LandmarksCurrent ==
    /\ mode = "body"
    /\ body_model.state \in {"LandmarksDetected", "MeasurementsExtracted"}

\* The bands a height of numerator / 20 rounds to: the first band at or above
\* it (np.searchsorted) and the bands nearest to it.
BandsOf(heights, numerator) ==
    LET n == Cardinality(DOMAIN heights)
        idx == searchsorted(heights, numerator, 20)
        least == SetMin({Abs(20 * heights[i] - numerator) : i \in DOMAIN heights})
    IN {heights[i] : i \in {j \in DOMAIN heights :
                               j = idx \/ Abs(20 * heights[j] - numerator) = least}}

\* C22: whenever knee landmarks are produced, their height is the band 45%
\* of the way down the leg from the crotch towards the floor:
\* crotch_height - 0.45 * (crotch_height - lowest band height), rounded to a
\* band.
C22_KneeFortyFivePercentDown ==
    (LandmarksCurrent /\ Found("crotch") /\ Found("left_knee")) =>
        LET heights == sorted_heights(body_model.cross_sections)
            crotch_height == body_model.landmarks["crotch"].y
            leg_length == crotch_height - heights[0]
            knee_bands == BandsOf(heights, 20 * crotch_height - 9 * leg_length)
        IN /\ body_model.landmarks["left_knee"].y \in knee_bands
           /\ body_model.landmarks["right_knee"].y \in knee_bands

\* What holds as it stands: the knees are the first band at or above 45% of
\* the leg measured up from the lowest band.
KneeFortyFivePercentUp ==
    (LandmarksCurrent /\ Found("crotch") /\ Found("left_knee")) =>
        LET heights == sorted_heights(body_model.cross_sections)
            crotch_height == body_model.landmarks["crotch"].y
            leg_length == crotch_height - heights[0]
            knee_idx == searchsorted(heights, 20 * heights[0] + 9 * leg_length, 20)
        IN /\ body_model.landmarks["left_knee"].y = heights[knee_idx]
           /\ body_model.landmarks["right_knee"].y = heights[knee_idx]

\* C28: whenever both HIP and CROTCH are among the landmarks, the crotch is
\* strictly below the hip and the hip strictly below the waist, so the
\* measurements have hip_height > crotch_height and front_rise > 0.
C28_CrotchBelowHipBelowWaist ==
    (mode = "body" /\ Found("hip") /\ Found("crotch")) =>
        /\ body_model.landmarks["crotch"].y < body_model.landmarks["hip"].y
        /\ body_model.landmarks["hip"].y < body_model.landmarks["waist"].y
        /\ body_model.state = "MeasurementsExtracted" =>
              /\ body_model.measurements.hip_height > body_model.measurements.crotch_height
              /\ body_model.measurements.front_rise > 0

\* What holds as it stands: the order holds among the landmarks of a
\* model's first analysis.
FirstAnalysisOrdersTorso ==
    (mode = "body" /\ body_model.analyses = 1 /\ Found("hip")) =>
        /\ body_model.landmarks["hip"].y < body_model.landmarks["waist"].y
        /\ Found("crotch") =>
              body_model.landmarks["crotch"].y < body_model.landmarks["hip"].y

\* C23: in the movement envelope every vertex off the central vertical axis
\* is pushed outward in the horizontal plane by its ease: the displacement
\* is ease times the unit vector of (x, z), Y is unchanged, and the body's
\* own vertex array and the vertex count are unchanged.
C23_EnvelopePushedRadially ==
    (mode = "fit" /\ movement_envelope # None) =>
        /\ movement_envelope.base_mesh_vertices = body.vertices
        /\ Len(movement_envelope.expanded_vertices) = Len(body.vertices)
        /\ \A i \in 1..Len(body.vertices) :
              LET v == body.vertices[i]
                  expanded == movement_envelope.expanded_vertices[i]
                  ease == vertex_ease(body.landmarks, movement_envelope.ease_map, v[2])
                  dx == expanded[1] - v[1]
                  dz == expanded[3] - v[3]
              IN (v[1] # 0 \/ v[3] # 0) =>
                    /\ expanded[2] = v[2]
                    /\ dx * v[3] = dz * v[1]
                    /\ dx * v[1] + dz * v[3] > 0
                    /\ dx * dx + dz * dz = ease * ease

\* What holds as it stands: X moves away from the plane x = 0 by the ease,
\* Y and Z are unchanged.
EnvelopePushedAlongX ==
    (mode = "fit" /\ movement_envelope # None) =>
        /\ movement_envelope.base_mesh_vertices = body.vertices
        /\ \A i \in 1..Len(body.vertices) :
              LET v == body.vertices[i]
                  expanded == movement_envelope.expanded_vertices[i]
                  ease == vertex_ease(body.landmarks, movement_envelope.ease_map, v[2])
              IN expanded = <<v[1] + Sign(v[1]) * ease, v[2], v[3]>>

\* The envelope of a body with a vertex off the plane z = 0 was generated.
EnvelopeOfDeepBody ==
    /\ mode = "fit"
    /\ movement_envelope # None
    /\ \E i \in 1..Len(body.vertices) : body.vertices[i][3] # 0

\* A step of generate_movement_envelope: the model is left as it was and an
\* envelope for its rings is returned.
EnvelopeReturned ==
    /\ mode = "body"
    /\ body_model'.returned # body_model.returned
    /\ body_model'.returned # None
    /\ "ring_ease" \in DOMAIN body_model'.returned

\* The height lies in the zone generate_movement_envelope draws around the
\* landmark: above 50 below the shoulder centre, within 100 of the others.
InEaseZone(name, height) ==
    /\ Found(name)
    /\ IF name = "shoulder_center" THEN height > body_model.landmarks[name].y - 50
       ELSE Abs(height - body_model.landmarks[name].y) < 100

\* C24: each named ease zone of the selected profile is applied to the
\* vertices of that zone: a vertex within the height tolerance of the bust
\* landmark and of no other landmark zone receives the profile's bust ease
\* (30 for default, 50 for wild), and the default 20 is used only for
\* vertices near no landmark.
C24_BustEaseApplied ==
    [][EnvelopeReturned =>
        \A k \in DOMAIN body_model.vertices :
            LET height == body_model.vertices[k].y
                ease == body_model'.returned.ring_ease[k]
                near_other == \E name \in {"shoulder_center", "waist", "hip", "crotch",
                                           "left_knee"} : InEaseZone(name, height)
            IN (InEaseZone("bust_apex_left", height) /\ ~near_other) =>
                  /\ ease = body_model'.returned.ease_map.bust
                  /\ ease \in {30, 50}]_vars

\* What holds as it stands: the ease of a vertex is that of the last of the
\* zones shoulder, waist, hip, crotch, knee it lies in, and 20 in none.
EaseOfLastZone ==
    [][EnvelopeReturned =>
        \A k \in DOMAIN body_model.vertices :
            LET height == body_model.vertices[k].y
                ease == body_model'.returned.ring_ease[k]
                ease_map == body_model'.returned.ease_map
            IN ease = IF InEaseZone("left_knee", height) THEN ease_map.knee
                      ELSE IF InEaseZone("crotch", height) THEN ease_map.crotch
                      ELSE IF InEaseZone("hip", height) THEN ease_map.hip
                      ELSE IF InEaseZone("waist", height) THEN ease_map.waist
                      ELSE IF InEaseZone("shoulder_center", height) THEN ease_map.shoulder
                      ELSE 20]_vars

(***************************************************************************)
(* fit_analysis.py: FitAnalyzer._classify_body_zone applied to every       *)
(* vertex of a body.  The body is a vertical line from 0 to 1000 with one  *)
(* vertex at a height on either side of every zone boundary, or that       *)
(* vertex alone (a body of height 0); its landmarks are any subset of six  *)
(* landmarks at fixed heights, whose zones overlap in pairs.               *)
(***************************************************************************)
ZoneLandmarks ==
    ("shoulder_center" :> 900 @@ "bust_apex_left" :> 750 @@ "waist" :> 600
        @@ "hip" :> 500 @@ "crotch" :> 400 @@ "left_knee" :> 200)

ZoneHeights ==
    {0, 50, 100, 101, 120, 121, 200, 201, 279, 280, 300, 301, 320, 321, 400, 401,
     479, 480, 500, 550, 551, 599, 600, 650, 651, 699, 700, 701, 750, 800, 801,
     849, 850, 851, 900, 999, 1000}

ClassifyBodyZones ==
    /\ mode = "zone"
    /\ vertex_zones' = [i \in 1..Len(body.vertices) |->
                           _classify_body_zone(body, body.vertices[i])]
    /\ mode' = "zone_classified"
    /\ UNCHANGED <<fitInputs, fitResult, patternVars, processed, body_model,
                   garment_model, unitVars, alignVars, seamVars, svg_content,
                   serverVars>>

InitZone ==
    /\ mode = "zone"
    /\ garment = None
    /\ movement_envelope = None
    /\ FitNotRun
    /\ PatternIdle
    /\ processed = None
    /\ body_model = None
    /\ garment_model = None
    /\ UnitsIdle /\ AlignIdle /\ SeamsIdle
    /\ vertex_zones = <<>>
    /\ svg_content = <<>>
    /\ ServerIdle
    /\ \E h \in ZoneHeights, known \in SUBSET DOMAIN ZoneLandmarks :
          \E vertices \in {<<(<<0, 0, 0>>), (<<0, h, 0>>), (<<0, 1000, 0>>)>>,
                           <<(<<0, h, 0>>)>>} :
              body = BodyModel(vertices, <<>>, [name \in known |-> ZoneLandmarks[name]],
                               BodyMeasurements(0, 0, 0, 0))

NextZone == ClassifyBodyZones

SpecZone == InitZone /\ [][NextZone]_vars

\* The rule list of the claim: landmark, tolerance, zone, in priority order.
ZoneRules ==
    <<(<<"shoulder_center", 100, "shoulders">>), (<<"bust_apex_left", 100, "bust">>),
      (<<"waist", 100, "waist">>), (<<"hip", 100, "hips">>),
      (<<"crotch", 80, "crotch">>), (<<"left_knee", 80, "knees">>)>>

\* The relative-height bands: percentage strictly exceeded, zone.
ZoneBands ==
    <<(<<85, "shoulders">>), (<<70, "bust">>), (<<55, "waist">>), (<<40, "hips">>),
      (<<30, "thighs">>), (<<20, "knees">>), (<<10, "calves">>)>>

FirstRuleZone(height) ==
    LET matching == {r \in DOMAIN ZoneRules :
                        /\ ZoneRules[r][1] \in DOMAIN body.landmarks
                        /\ Abs(height - body.landmarks[ZoneRules[r][1]]) < ZoneRules[r][2]}
        lowest == SetMin({body.vertices[i][2] : i \in DOMAIN body.vertices})
        highest == SetMax({body.vertices[i][2] : i \in DOMAIN body.vertices})
        exceeded == {k \in DOMAIN ZoneBands :
                        (height - lowest) * 100 > ZoneBands[k][1] * (highest - lowest)}
    IN IF matching # {} THEN ZoneRules[SetMin(matching)][3]
       ELSE IF exceeded # {} THEN ZoneBands[SetMin(exceeded)][2]
       ELSE "ankles"

\* C25: zone classification is a total, ordered rule list: for every vertex
\* height and every subset of known landmarks _classify_body_zone returns the
\* zone of the first matching rule in the order shoulders, bust, waist, hips
\* (within 100), crotch, knees (within 80), and only when none matches the
\* relative-height band (>0.85 shoulders, >0.7 bust, >0.55 waist, >0.4 hips,
\* >0.3 thighs, >0.2 knees, >0.1 calves, else ankles); torso_front and
\* torso_back are never returned.
C25_ZoneOfFirstMatchingRule ==
    mode = "zone_classified" =>
        /\ Len(vertex_zones) = Len(body.vertices)
        /\ \A i \in 1..Len(body.vertices) :
              /\ vertex_zones[i] = FirstRuleZone(body.vertices[i][2])
              /\ vertex_zones[i] \in BodyZone \ {"torso_front", "torso_back"}

\* A vertex within 100 of both the bust and the waist was classified, and so
\* was one that is near no known landmark.
C25_Witness ==
    /\ mode = "zone_classified"
    /\ DOMAIN body.landmarks = {"bust_apex_left", "waist", "crotch"}
    /\ Len(body.vertices) = 3
    /\ body.vertices[2][2] = 651
    /\ vertex_zones = <<"ankles", "bust", "shoulders">>

\* The issue has a rule in _recommend_for_issue.
HasRule(issue) == _recommend_for_issue(issue, 1) # None

Occurrences(seq, x) == Cardinality({i \in DOMAIN seq : seq[i] = x})

\* C27: the priorities of the recommendations of a result are exactly 1..k
\* in list order (the i-th has priority i); an issue that matches no rule
\* produces no recommendation and consumes no rank, so k is at most the number
\* of issues and each recommendation refers to an issue of its own.
C27_PrioritiesAreRanks ==
    Analyzed =>
        LET rec_issues == [i \in DOMAIN recommendations |-> recommendations[i].issue]
        IN /\ \A i \in DOMAIN recommendations : recommendations[i].priority = i
           /\ Len(recommendations) <= Len(issues)
           /\ Len(recommendations) = Cardinality({j \in DOMAIN issues : HasRule(issues[j])})
           /\ \A i \in DOMAIN rec_issues :
                 /\ HasRule(rec_issues[i])
                 /\ Occurrences(rec_issues, rec_issues[i]) <= Occurrences(issues, rec_issues[i])

\* A result with at least two recommendations and an issue without a rule.
C27_Witness ==
    /\ Analyzed
    /\ Len(recommendations) >= 2
    /\ \E j \in DOMAIN issues :
          /\ ~HasRule(issues[j])
          /\ \E later \in DOMAIN recommendations :
                \E earlier \in DOMAIN recommendations :
                    /\ earlier < later
                    /\ KeyLess(issues[j], recommendations[earlier].issue)
                    /\ KeyLess(recommendations[later].issue, issues[j])

(***************************************************************************)
(* pattern_generator.py: generate_patterns, the module-level function the  *)
(* server calls with the recommendation dicts of a fit analysis.           *)
(***************************************************************************)
\* ModificationRecommendation.to_dict (fit_analysis.py): the issue is reduced
\* to its type and zone.
rec_to_dict(rec) ==
    [type |-> rec.modification_type, for_issue |-> rec.issue.issue_type,
     zone |-> rec.issue.body_zone, amount_mm |-> rec.amount, location |-> rec.location,
     priority |-> rec.priority, instructions |-> rec.instructions]

\* generate_patterns, lines 703-722: the recommendation rebuilt around a
\* minimal issue of moderate severity carrying the recommendation's amount.
rec_from_dict(rec_dict) ==
    [issue |-> FitIssue(rec_dict.for_issue, "moderate", rec_dict.zone, rec_dict.amount_mm,
                        "", <<>>),
     modification_type |-> rec_dict.type, amount |-> rec_dict.amount_mm,
     location |-> rec_dict.location, priority |-> rec_dict.priority,
     instructions |-> rec_dict.instructions]

\* generate_patterns, lines 724-729: a garment of four zero vertices that
\* carries the waist, ankle and outseam measurements handed in.
minimal_garment(garment_data) ==
    GarmentModel(<<(<<0, 0, 0>>), (<<0, 0, 0>>), (<<0, 0, 0>>), (<<0, 0, 0>>)>>,
                 <<(<<1, 2, 3>>)>>,
                 GarmentMeasurements(0, garment_data.outseam_length, 0, 0,
                                     garment_data.ankle_circumference,
                                     garment_data.waist_circumference),
                 "unknown")

\* PatternGenerator.export_svg: the drawing shows the name as its title, the
\* outline as a path, and a line of dimensions and seam allowance.
export_svg(pattern) ==
    [title |-> pattern.name, path |-> pattern.outline,
     label |-> <<pattern.dimensions_mm, pattern.seam_allowance>>]

\* generate_patterns, lines 741-743: result['svg_content'][pattern.name] = svg
\* for each pattern in turn; a later pattern of the same name replaces the
\* drawing of an earlier one.
svg_content_of(generated) ==
    LET names == {generated[i].name : i \in DOMAIN generated}
    IN [name \in names |->
          export_svg(generated[SetMax({i \in DOMAIN generated : generated[i].name = name})])]

generate_patterns(rec_dicts, garment_data) ==
    LET recs == [i \in DOMAIN rec_dicts |-> rec_from_dict(rec_dicts[i])]
        generated == generate_from_recommendations(recs, minimal_garment(garment_data))
    IN [patterns |-> generated, svg_content |-> svg_content_of(generated)]

GenerateDrawings ==
    /\ mode = "pattern"
    /\ LET rec_dicts == [i \in DOMAIN recommendations |-> rec_to_dict(recommendations[i])]
           result == generate_patterns(rec_dicts, garment.measurements)
       IN /\ patterns' = result.patterns
          /\ svg_content' = result.svg_content
    /\ mode' = "patterns_exported"
    /\ UNCHANGED <<fitInputs, fitResult, fabric_type, panel_args, processed, body_model,
                   garment_model, unitVars, alignVars, seamVars, vertex_zones,
                   serverVars>>

InitDrawings == InitGenerate

NextDrawings == GenerateDrawings

SpecDrawings == InitDrawings /\ [][NextDrawings]_vars

\* C30: generate_patterns returns one drawing per generated pattern: the
\* drawings map has exactly as many entries as the patterns list, also when
\* several recommendations produce patterns of the same kind and zone, so no
\* pattern's drawing is overwritten by another's.
C30_OneDrawingPerPattern ==
    mode = "patterns_exported" =>
        /\ Cardinality(DOMAIN svg_content) = Len(patterns)
        /\ \A i \in DOMAIN patterns :
              \E name \in DOMAIN svg_content : svg_content[name] = export_svg(patterns[i])

\* What holds as it stands: every pattern's name has a drawing, and a
\* drawing is that of the last pattern of its name.
DrawingOfLastPatternOfName ==
    mode = "patterns_exported" =>
        /\ DOMAIN svg_content = {patterns[i].name : i \in DOMAIN patterns}
        /\ \A i \in DOMAIN patterns :
              (\A j \in DOMAIN patterns : j > i => patterns[j].name # patterns[i].name)
                  => svg_content[patterns[i].name] = export_svg(patterns[i])

\* Two leg extensions were generated, from an inseam and an outseam issue.
TwoLegExtensions ==
    /\ mode = "patterns_exported"
    /\ Len(patterns) = 2
    /\ patterns[1].name = patterns[2].name

(***************************************************************************)
(* app.py: mesh_storage and the requests that write and read it.  A dict   *)
(* is a record whose DOMAIN is its keys; the mesh backends are taken to be *)
(* importable, so no request answers 501.                                  *)
(***************************************************************************)
\* clean_mesh, lines 271-273: what it returns when no cleaning backend is
\* installed.
clean_mesh(p) == p

\* An ndarray of coordinates: values[k][i] * factor / denominator.
array_of(p) == [values |-> p.vertices, factor |-> p.factor, denominator |-> p.denominator]

\* MeshStats.to_dict: the entries a later request reads.
stats_to_dict(p) ==
    [vertex_count |-> Len(p.vertices), center |-> p.center, unit |-> p.unit]

\* load_mesh, clean_mesh and orient_body or orient_garment on one file: the
\* ways the chain can end, raised saying that an exception left it.
processed_scans(file_vertices, is_body) ==
    LET cleaned == clean_mesh(load_mesh(file_vertices))
        outcomes == IF is_body THEN orient_body(AsProcessed(cleaned))
                    ELSE orient_garment(AsProcessed(cleaned))
    IN {[raised |-> outcome.raised,
         mesh |-> IF outcome.raised THEN cleaned
                  ELSE oriented_stats(cleaned, outcome.processed)] : outcome \in outcomes}

\* The dict upload_body_mesh and upload_garment_mesh store.  The faces of a
\* scan of points are an empty array.
uploaded_entry(p, analysis) ==
    [vertices |-> array_of(p), faces |-> <<>>, stats |-> stats_to_dict(p),
     analysis |-> analysis]

\* process_garment_scan: the dict it returns.
process_garment_scan(p, garment_type) ==
    [success |-> TRUE, mesh_type |-> "garment", garment_type |-> garment_type,
     stats |-> stats_to_dict(p), processing_log |-> "processing_log"]

Response(route, status) == [route |-> route, status |-> status, analyzed |-> None]

MovementProfileNames == {"default", "wild"}

\* The scans requests carry and the scan folder holds: a body written in
\* millimeters or meters, a garment written in centimeters or millimeters.
BodyScanFiles == {FileOf(LineShape, scale) : scale \in {1, 1000}}
GarmentScanFiles == {FileOf(EvenShape, scale) : scale \in {100, 1000}}

\* The ways processing each scan can end.
body_scans == [file \in BodyScanFiles |-> processed_scans(file, TRUE)]
garment_scans == [file \in GarmentScanFiles |-> processed_scans(file, FALSE)]

\* upload_body_mesh
UploadBodyMesh ==
    /\ mode = "server"
    /\ \/ /\ response' = Response("upload_body", 400)         \* no 'mesh' file
          /\ UNCHANGED mesh_storage
       \/ \E file \in BodyScanFiles, movement_profile \in MovementProfileNames :
            \E scan \in body_scans[file] :
               IF scan.raised
               THEN /\ response' = Response("upload_body", 400)
                    /\ UNCHANGED mesh_storage
               ELSE /\ mesh_storage' =
                          [mesh_storage EXCEPT
                             !.body = uploaded_entry(scan.mesh, [movement_profile |->
                                                                movement_profile])]
                    /\ response' = Response("upload_body", 200)
    /\ UNCHANGED <<mode, fitInputs, fitResult, patternVars, processed, body_model,
                   garment_model, unitVars, alignVars, seamVars, vertex_zones,
                   svg_content>>

\* upload_garment_mesh
UploadGarmentMesh ==
    /\ mode = "server"
    /\ \/ /\ response' = Response("upload_garment", 400)
          /\ UNCHANGED mesh_storage
       \/ \E file \in GarmentScanFiles, garment_type \in {"pants", "shirt"} :
            \E scan \in garment_scans[file] :
               IF scan.raised
               THEN /\ response' = Response("upload_garment", 400)
                    /\ UNCHANGED mesh_storage
               ELSE /\ mesh_storage' =
                          [mesh_storage EXCEPT
                             !.garment = uploaded_entry(scan.mesh, [garment_type |->
                                                                   garment_type])]
                    /\ response' = Response("upload_garment", 200)
    /\ UNCHANGED <<mode, fitInputs, fitResult, patternVars, processed, body_model,
                   garment_model, unitVars, alignVars, seamVars, vertex_zones,
                   svg_content>>

\* What a request names in the scan folder: nothing, a file that is not
\* there, or a scan.
ScanFilenames == {"", "missing.ply", "scan.ply"}

\* load_scan_from_folder with scan_type 'body': process_body_scan takes two
\* arguments and is called with three, so the call raises TypeError and the
\* handler answers 500 for every file it finds.
LoadBodyScanFromFolder ==
    /\ mode = "server"
    /\ \E filename \in ScanFilenames :
          response' = Response("load_body",
                               IF filename = "" THEN 400
                               ELSE IF filename = "missing.ply" THEN 404 ELSE 500)
    /\ UNCHANGED <<mode, fitInputs, fitResult, patternVars, processed, body_model,
                   garment_model, unitVars, alignVars, seamVars, vertex_zones,
                   svg_content, mesh_storage>>

\* load_scan_from_folder with scan_type 'garment'; a request without
\* 'garment_type' hands None on, written "null" here.
LoadGarmentScanFromFolder ==
    /\ mode = "server"
    /\ \E filename \in ScanFilenames :
          IF filename = ""
          THEN /\ response' = Response("load_garment", 400)
               /\ UNCHANGED mesh_storage
          ELSE IF filename = "missing.ply"
          THEN /\ response' = Response("load_garment", 404)
               /\ UNCHANGED mesh_storage
          ELSE \E file \in GarmentScanFiles, garment_type \in {"pants", "null"} :
                 \E scan \in garment_scans[file] :
                    IF scan.raised
                    THEN /\ response' = Response("load_garment", 500)
                         /\ UNCHANGED mesh_storage
                    ELSE LET result == process_garment_scan(scan.mesh, garment_type)
                         IN /\ mesh_storage' =
                                  IF result.success
                                  THEN [mesh_storage EXCEPT !.garment = result]
                                  ELSE mesh_storage
                            /\ response' = Response("load_garment", 200)
    /\ UNCHANGED <<mode, fitInputs, fitResult, patternVars, processed, body_model,
                   garment_model, unitVars, alignVars, seamVars, vertex_zones,
                   svg_content>>

\* clear_meshes
ClearMeshes ==
    /\ mode = "server"
    /\ mesh_storage' = [body |-> None, garment |-> None]
    /\ response' = Response("clear", 200)
    /\ UNCHANGED <<mode, fitInputs, fitResult, patternVars, processed, body_model,
                   garment_model, unitVars, alignVars, seamVars, vertex_zones,
                   svg_content>>

\* The arrays handed to analyze_fit, with the unit of the mesh each came
\* from.
FitArguments(body_vertices, body_unit, garment_vertices, garment_unit) ==
    [body_vertices |-> body_vertices, body_unit |-> body_unit,
     garment_vertices |-> garment_vertices, garment_unit |-> garment_unit]

HasKey(dict, key) == key \in DOMAIN dict

\* analyze_fit_endpoint.  The lookups of the stored path are outside every
\* try block, so a missing key leaves the handler as KeyError and the
\* response is 500.  analyze_fit itself returns (200) or raises (400).
AnalyzeFitEndpoint ==
    /\ mode = "server"
    /\ \/ \E body_file \in BodyScanFiles, garment_file \in GarmentScanFiles :
            \E b \in body_scans[body_file],
               g \in garment_scans[garment_file] :
               IF b.raised \/ g.raised
               THEN response' = Response("fit", 400)
               ELSE LET aligned == align_meshes(b.mesh, g.mesh)
                    IN \E status \in {200, 400} :
                         response' =
                           [route |-> "fit", status |-> status,
                            analyzed |-> FitArguments(array_of(aligned.body),
                                                  aligned.body.unit,
                                                  array_of(aligned.garment),
                                                  aligned.garment.unit)]
       \/ /\ mesh_storage.body # None /\ mesh_storage.garment # None
          /\ IF \/ ~HasKey(mesh_storage.body, "vertices")
                \/ ~HasKey(mesh_storage.body, "faces")
                \/ ~HasKey(mesh_storage.garment, "vertices")
                \/ ~HasKey(mesh_storage.garment, "faces")
             THEN response' = Response("fit", 500)
             ELSE \E status \in {200, 400} :
                    response' =
                      [route |-> "fit", status |-> status,
                       analyzed |-> FitArguments(mesh_storage.body.vertices,
                                             mesh_storage.body.stats.unit,
                                             mesh_storage.garment.vertices,
                                             mesh_storage.garment.stats.unit)]
       \/ /\ mesh_storage.body = None \/ mesh_storage.garment = None
          /\ response' = Response("fit", 400)
    /\ UNCHANGED <<mode, fitInputs, fitResult, patternVars, processed, body_model,
                   garment_model, unitVars, alignVars, seamVars, vertex_zones,
                   svg_content, mesh_storage>>

InitServer ==
    /\ mode = "server"
    /\ body = None
    /\ garment = None
    /\ movement_envelope = None
    /\ FitNotRun
    /\ PatternIdle
    /\ processed = None
    /\ body_model = None
    /\ garment_model = None
    /\ UnitsIdle /\ AlignIdle /\ SeamsIdle
    /\ vertex_zones = <<>>
    /\ svg_content = <<>>
    /\ mesh_storage = [body |-> None, garment |-> None]
    /\ response = None

NextServer ==
    \/ UploadBodyMesh
    \/ UploadGarmentMesh
    \/ LoadBodyScanFromFolder
    \/ LoadGarmentScanFromFolder
    \/ ClearMeshes
    \/ AnalyzeFitEndpoint

SpecServer == InitServer /\ [][NextServer]_vars

\* The last request reached analyze_fit.
FitAnalysisRan == response # None /\ response.analyzed # None

\* C29: every non-empty entry of mesh_storage holds 'vertices', 'faces' and
\* 'stats', and no fit request on stored meshes ends on a missing key.
C29_StoredEntriesHoldMeshKeys ==
    /\ \A name \in {"body", "garment"} :
          mesh_storage[name] # None
             => \A key \in {"vertices", "faces", "stats"} :
                   HasKey(mesh_storage[name], key)
    /\ response # None => ~(response.route = "fit" /\ response.status = 500)

\* What holds of the store: every non-empty entry holds 'stats', which is
\* all that mesh_status reads.
StoredEntriesHoldStats ==
    \A name \in {"body", "garment"} :
       mesh_storage[name] # None => HasKey(mesh_storage[name], "stats")

FitOnScanFromFolder ==
    /\ mesh_storage.body # None
    /\ mesh_storage.garment # None
    /\ ~HasKey(mesh_storage.garment, "vertices")
    /\ response.route = "fit"
    /\ response.status = 500

\* C26: whenever the fit endpoint calls analyze_fit, on either path, the
\* body and the garment it hands over are in the same unit.
C26_FitMeshesShareUnit ==
    FitAnalysisRan => response.analyzed.body_unit = response.analyzed.garment_unit

\* What holds: a request that never reached align_meshes is the only one
\* that hands over meshes in two units.
UploadedPairSharesUnit ==
    FitAnalysisRan /\ response.analyzed.body_unit # response.analyzed.garment_unit
       => /\ mesh_storage.body # None
          /\ mesh_storage.garment # None
          /\ response.analyzed.body_vertices = mesh_storage.body.vertices
          /\ response.analyzed.garment_vertices = mesh_storage.garment.vertices

StoredMillimetersAgainstCentimeters ==
    /\ FitAnalysisRan
    /\ response.analyzed.body_unit = "mm"
    /\ response.analyzed.garment_unit = "cm"

====
